---- MODULE Spec2Model ----
(***************************************************************************)
(* Stitchify: a raster image is resampled to a stitch grid (Fabric::new),  *)
(* the user's links are validated and oriented (links_to_hash), the grid   *)
(* is swept in knit order to hand every stitch to a thread                 *)
(* (calculate_threads), and main() writes the chart.                       *)
(*                                                                         *)
(* Coordinates.  Internal (ix, iy): 0-based, origin top-left, the stitch   *)
(* array index is iy * n_stitches + ix.  User / link (ux, uy): 1-based,    *)
(* origin bottom-right.  Vec<T> with 0-based indices is a function on      *)
(* 0..n-1 for the stitch array and a sequence for the thread list          *)
(* (thread index i of the source is element i+1 here).                     *)
(***************************************************************************)
EXTENDS Integers, Sequences, FiniteSets, TLC

(* ---------------------------- bounds ---------------------------------- *)
\* an input image has at most MaxPixels pixels (width * height)
MaxPixels == 3
\* dimensions.stitches ranges over 1..MaxStitches
MaxStitches == 3
\* dimensions.links has at most MaxLinks entries
MaxLinks == 2
\* the image given to make_mitre_fabric is at most MaxMitreSide pixels
\* wide and high
MaxMitreSide == 2
\* the caller of make_mitre_fabric gives at most MaxMitreLinks links
MaxMitreLinks == 1
\* mm_to_text is called with 0 .. MaxMm, and with the MaxTop + 1 highest
\* values of u32
MaxMm == 1200
MaxTop == 9
\* stitch_count_text is called with n_stitches in 0 .. MaxCount
MaxCount == 50
\* Fabric::new is followed with its 16-bit products for images of a side
\* of 2, 3 and MaxSide - 2 .. MaxSide pixels (MaxSide * MaxSide > 65535)
MaxSide == 257
\* generate_defs labels the thread ids 0 .. MaxId, and the MaxTop + 1
\* highest values of u16
MaxId == 700

(* ------------------------ program constants --------------------------- *)
MAX_ROW_GAP == 2
MAX_STITCH_GAP == 1

\* Color = [u8; 3]; two distinct colours stand for the RGB triples.
Colors == {"a", "b"}
\* Option<Color>::None
None == "none"
ColorOpt == Colors \cup {None}
\* (gauge_stitches, gauge_rows) pairs: square, garter-like and tall stitches
Gauges == {<<1, 1>>, <<1, 2>>, <<2, 1>>}

VARIABLES
    pc,              \* position of main(): open, decode, convert, mitre,
                     \* new, resample, links, sweep, create, write, exit
    label,           \* stitch_count_text / mm_to_text: the arguments of
                     \* the call and the text written
    alloc,           \* the build profile, and what Fabric::new allocated
                     \* and indexed with its 16-bit products
    mitre,           \* make_mitre_fabric: the image and link list it was
                     \* called with, and dimensions.links after its loop
    dims,            \* config.dimensions without the link list
    image,           \* the decoded image behind the Image trait
    stitches,        \* Fabric.stitches : Vec<Option<Stitch>>
    n_stitches,      \* Fabric.n_stitches
    n_rows,          \* Fabric.n_rows
    threads,         \* Fabric.threads
    ry,              \* row of the resampling loop still to do (-1: none)
    links,           \* the prefix of dimensions.links iterated so far
    link,            \* loop variable of links_to_hash
    link_map,        \* HashMap<(u16,u16),(u16,u16)> built by links_to_hash
    reads,           \* stitch indices read by look_up_link_position
    k,               \* number of cells calculate_threads has visited
    err,             \* Result: the fabric::Error (or panic) of the build
    svg,             \* build_svg returned Ok(svg)
    output_created,  \* File::create(&config.files.output) succeeded
    output_written,  \* svg.write(output) succeeded
    exit_code        \* ExitCode returned by main

vars == <<pc, alloc, label, mitre, dims, image, stitches, n_stitches, n_rows, threads,
          ry, links,
          link, link_map, reads, k, err, svg, output_created, output_written,
          exit_code>>

(* ----------------------------- helpers -------------------------------- *)
Min(a, b) == IF a < b THEN a ELSE b
AbsDiff(a, b) == IF a < b THEN b - a ELSE a - b

\* f32::round of the non-negative quotient n / d (halves round away from 0)
RoundDiv(n, d) == (2 * n + d) \div (2 * d)

NoError == [kind |-> "none"]
NoStitch == [some |-> FALSE]
NoLink == [source |-> <<0, 0>>, dest |-> <<0, 0>>]
EmptyVec == [i \in {} |-> NoStitch]
NoImage == [width |-> 0, height |-> 0, pixels |-> [i \in {} |-> None]]
\* no label has been asked for
NoLabel == [call |-> "none"]
\* the 16-bit products of Fabric::new are not followed
NoAlloc == [checks |-> FALSE, len |-> 0, row |-> -1, start |-> 0, copies |-> {}]
\* make_mitre_fabric has not been called
NoMitre == [source |-> NoImage, stitches |-> 0, caller |-> << >>,
            links |-> << >>]

Images ==
    UNION { { [width |-> w, height |-> h, pixels |-> p] :
                p \in [0 .. (w * h - 1) -> ColorOpt] } :
            <<w, h>> \in { wh \in (1 .. MaxPixels) \X (1 .. MaxPixels) :
                             wh[1] * wh[2] <= MaxPixels } }

DimensionsSet ==
    { [stitches |-> s, gauge_stitches |-> g[1], gauge_rows |-> g[2],
       duplicate_rows |-> d, allow_link_gaps |-> a] :
        s \in 1 .. MaxStitches, g \in Gauges, d \in {1, 2}, a \in BOOLEAN }

get_pixel(img, x, y) == img.pixels[y * img.width + x]

(* --------------------------- resampling ------------------------------- *)
\* The keys of the colour tally with the highest count.  max_by_key walks
\* the HashMap in its (randomised) iteration order, so any of them may be
\* returned; on an empty footprint the tally is empty, max_by_key gives
\* None and unwrap() panics.
most_popular_color(img, start_x, end_x, start_y, end_y) ==
    LET fp == (start_x .. (end_x - 1)) \X (start_y .. (end_y - 1))
        cnt(c) == Cardinality({p \in fp : get_pixel(img, p[1], p[2]) = c})
    IN  {c \in ColorOpt : cnt(c) > 0 /\ \A d \in ColorOpt : cnt(d) <= cnt(c)}

\* sample_width = w / stitches; sample_height = sample_width * gs / gr,
\* kept as exact fractions: sample_height = SampleHeightNum / SampleHeightDen
SampleHeightNum == image.width * dims.gauge_stitches
SampleHeightDen == dims.stitches * dims.gauge_rows

NRows == Min(RoundDiv(image.height * SampleHeightDen, SampleHeightNum), 65535)

\* mutant: the footprint of a row starts one fabric row too high
SampleStartYWide(y) ==
    IF y - dims.duplicate_rows <= 0 THEN 0
    ELSE RoundDiv(SampleHeightNum * (y - dims.duplicate_rows),
                  SampleHeightDen)

SampleStartY(y) ==
    IF y - (dims.duplicate_rows - 1) <= 0 THEN 0
    ELSE RoundDiv(SampleHeightNum * (y - (dims.duplicate_rows - 1)),
                  SampleHeightDen)
SampleEndY(y) ==
    Min(RoundDiv(SampleHeightNum * (y + 1), SampleHeightDen), image.height)
SampleStartX(x) == RoundDiv(image.width * x, dims.stitches)
SampleEndX(x) == Min(RoundDiv(image.width * (x + 1), dims.stitches), image.width)

\* the colours most_popular_color may return for column x of block row y
CellColors(x, y) ==
    most_popular_color(image, SampleStartX(x), SampleEndX(x),
                       SampleStartY(y), SampleEndY(y))

NewStitch(color) ==
    IF color = None THEN NoStitch
    ELSE [some |-> TRUE, color |-> color, thread |-> 0]

\* mutant: the copies written below the sampled row instead of above it
CopyRowsBelow(st, row, y) ==
    LET n == Min(dims.duplicate_rows - 1, y)
    IN  [i \in DOMAIN st |->
            LET iy == i \div dims.stitches
                ix == i % dims.stitches
            IN  IF iy = y \/ (iy > y /\ iy <= y + n)
                THEN NewStitch(row[ix])
                ELSE st[i]]

\* row[x] = color.map(...) for the sampled row y, then clone_from_slice of
\* that row into the (duplicate_rows - 1).min(y) rows above it
CopyRows(st, row, y) ==
    LET n == Min(dims.duplicate_rows - 1, y)
    IN  [i \in DOMAIN st |->
            LET iy == i \div dims.stitches
                ix == i % dims.stitches
            IN  IF iy = y \/ (iy < y /\ iy >= y - n)
                THEN NewStitch(row[ix])
                ELSE st[i]]

(* ------------------------------ sampler ------------------------------- *)
\* Sampler::new(image, sample_size, sample_size): sample_width and
\* sample_height are both the exact fraction num / den
Sampler(img, num, den) == [image |-> img, num |-> num, den |-> den]

sample_range(s, x, y, row_height) ==
    [start_x |-> RoundDiv(x * s.num, s.den),
     end_x |-> Min(RoundDiv((x + 1) * s.num, s.den), s.image.width),
     start_y |-> RoundDiv(y * s.num, s.den),
     end_y |-> Min(RoundDiv((y + row_height) * s.num, s.den), s.image.height)]

\* counts.keys().max_by_key(..).cloned().unwrap_or(None) for the tally of
\* the pixels at the given positions: any key with the highest count (the
\* iteration order of the HashMap decides), None for an empty tally
end_counting(img, cells) ==
    LET cnt(c) == Cardinality({p \in cells : get_pixel(img, p[1], p[2]) = c})
        best == {c \in ColorOpt :
                    cnt(c) > 0 /\ \A d \in ColorOpt : cnt(d) <= cnt(c)}
    IN  IF best = {} THEN {None} ELSE best

sample(s, x, y, row_height) ==
    LET r == sample_range(s, x, y, row_height)
    IN  end_counting(s.image, (r.start_x .. (r.end_x - 1))
                                  \X (r.start_y .. (r.end_y - 1)))

sample_lower_left_triangle(s, x, y) ==
    LET r == sample_range(s, x, y, 1)
        y_range == r.end_y - r.start_y
        row_length(py) ==
            ((py + 1 - r.start_y) * (r.end_x - r.start_x) + y_range \div 2)
                \div y_range
    IN  IF r.end_y <= r.start_y THEN {None}
        ELSE end_counting(s.image,
                 UNION { { <<px, py>> :
                            px \in r.start_x .. (r.start_x + row_length(py) - 1) }
                         : py \in r.start_y .. (r.end_y - 1) })

sample_upper_right_triangle(s, x, y) ==
    LET r == sample_range(s, x, y, 1)
        y_range == r.end_y - r.start_y
        row_length(py) ==
            ((y_range + r.start_y - py) * (r.end_x - r.start_x) + y_range \div 2)
                \div y_range
    IN  IF r.end_y <= r.start_y THEN {None}
        ELSE end_counting(s.image,
                 UNION { { <<px, py>> :
                            px \in (r.end_x - row_length(py)) .. (r.end_x - 1) }
                         : py \in r.start_y .. (r.end_y - 1) })

(* ------------------------------- mitre -------------------------------- *)
\* mutant: the right half pushed without walking the source column upwards
MitreRowUnreversed(s, n, y) ==
    LET row_width == y + 1
    IN  [x \in 1 .. (row_width - 1) |-> sample(s, x - 1, y, 1)]
        \o << sample_lower_left_triangle(s, row_width - 1, y) >>
        \o [i \in 1 .. ((n - row_width) * 2) |-> {None}]
        \o << sample_upper_right_triangle(s, row_width - 1, y) >>
        \o [x \in 1 .. (row_width - 1) |-> sample(s, y, x, 1)]

\* the pushes of one iteration "for y in 0..n_stitches" of MitreImage::new;
\* each element is the set of values the push may have
MitreRow(s, n, y) ==
    LET row_width == y + 1
    IN  [x \in 1 .. (row_width - 1) |-> sample(s, x - 1, y, 1)]
        \o << sample_lower_left_triangle(s, row_width - 1, y) >>
        \o [i \in 1 .. ((n - row_width) * 2) |-> {None}]
        \o << sample_upper_right_triangle(s, row_width - 1, y) >>
        \o [x \in 1 .. (row_width - 1) |-> sample(s, y, row_width - 1 - x, 1)]

\* the pixel vector after the rows y .. n-1 have been pushed onto acc
RECURSIVE MitrePushes(_, _, _, _)
MitrePushes(s, n, y, acc) ==
    IF y >= n THEN acc
    ELSE MitrePushes(s, n, y + 1, acc \o MitreRow(s, n, y))

\* the sequences that take one value of each element of opts
RECURSIVE AllChoices(_)
AllChoices(opts) ==
    IF Len(opts) = 0 THEN { << >> }
    ELSE { <<c>> \o rest : c \in Head(opts), rest \in AllChoices(Tail(opts)) }

\* MitreImage::new(image, n_stitches); width() is size * 2, height() size,
\* get_pixel(x, y) is pixels[y * size * 2 + x]
MitreImageNew(img, n) ==
    LET image_size == Min(img.width, img.height)
        s == Sampler(img, image_size, n)
    IN  { [width |-> n * 2, height |-> n,
           pixels |-> [i \in 0 .. (Len(px) - 1) |-> px[i + 1]]] :
            px \in AllChoices(MitrePushes(s, n, 0, << >>)) }

\* mutant: the second link of a pair is left out
SeamPairSingle(left_x, right_x, bottom_row) ==
    << [source |-> <<right_x + 1, bottom_row>>,
        dest |-> <<left_x + 1, bottom_row>>] >>

\* the two dimensions.links.push(..) of the seam loop
SeamPair(left_x, right_x, bottom_row) ==
    << [source |-> <<right_x + 1, bottom_row>>,
        dest |-> <<left_x + 1, bottom_row>>],
       [source |-> <<left_x + 1, bottom_row + 1>>,
        dest |-> <<right_x + 1, bottom_row + 1>>] >>

\* dimensions.links after the iterations y .. height-2 of the loop
\* "for y in 0..image.height() as u16 - 1" of make_mitre_fabric
RECURSIVE SeamLoop(_, _, _)
SeamLoop(mi, y, ls) ==
    IF y >= mi.height - 1 THEN ls
    ELSE LET center == mi.width \div 2
             image_y == mi.height - 2 - y
             left_x == center - y - 2
             right_x == center + y + 1
             left == get_pixel(mi, left_x, image_y)
             right == get_pixel(mi, right_x, image_y)
             bottom_row == y * 2 + 3
         IN  IF left = None \/ right = None \/ left # right
             THEN SeamLoop(mi, y + 1, ls)
             ELSE SeamLoop(mi, y + 1,
                           ls \o SeamPair(left_x, right_x, bottom_row))

\* mutant: the row gauge is not doubled
MitreDimensionsSquare(d, mi) ==
    [d EXCEPT !.duplicate_rows = 2,
              !.stitches = mi.width % 65536,
              !.allow_link_gaps = TRUE]

\* the Dimensions make_mitre_fabric builds from the caller's
MitreDimensions(d, mi) ==
    [d EXCEPT !.gauge_rows = d.gauge_stitches * 2,
              !.duplicate_rows = 2,
              !.stitches = mi.width % 65536,
              !.allow_link_gaps = TRUE]

(* ------------------------- link validation ---------------------------- *)
PosOutsideOfFabric(pos) == [kind |-> "PosOutsideOfFabric", pos |-> pos]
LinkTooFar(l) == [kind |-> "LinkTooFar", link |-> l]
LinkToDifferentColor(l) == [kind |-> "LinkToDifferentColor", link |-> l]
LinkNotFound(l) == [kind |-> "LinkNotFound", link |-> l]
\* a Rust panic: unwrap() on None, an index out of bounds, or an
\* arithmetic overflow (checked in the profile the tests run under)
Panic == [kind |-> "Panic"]

\* (self.n_stitches - x + (self.n_rows - y) * self.n_stitches) as usize,
\* computed in u16; -1 stands for an overflowing operation
LinkIndex(pos) ==
    IF pos[1] > n_stitches \/ pos[2] > n_rows THEN -1
    ELSE LET v == n_stitches - pos[1] + (n_rows - pos[2]) * n_stitches
         IN  IF v > 65535 THEN -1 ELSE v

\* Option<&Color> of the stitch at a user position; "panic" when the
\* index is not in the array
look_up_link_position(st, pos) ==
    LET i == LinkIndex(pos)
    IN  IF i \notin DOMAIN st THEN "panic"
        ELSE IF st[i].some THEN st[i].color ELSE None

\* mutant: the test x == 0 left out
validate_link_pos_no_zero(st, pos) ==
    IF pos[1] > n_stitches \/ pos[2] = 0 \/ pos[2] > n_rows
    THEN [err |-> PosOutsideOfFabric(pos), reads |-> {}]
    ELSE LET c == look_up_link_position(st, pos)
         IN  [err |-> IF c = "panic" THEN Panic
                      ELSE IF c = None THEN PosOutsideOfFabric(pos)
                      ELSE NoError,
              reads |-> {LinkIndex(pos)}]

\* the result of validate_link_pos and the stitch indices it read
validate_link_pos(st, pos) ==
    IF pos[1] = 0 \/ pos[1] > n_stitches \/ pos[2] = 0 \/ pos[2] > n_rows
    THEN [err |-> PosOutsideOfFabric(pos), reads |-> {}]
    ELSE LET c == look_up_link_position(st, pos)
         IN  [err |-> IF c = "panic" THEN Panic
                      ELSE IF c = None THEN PosOutsideOfFabric(pos)
                      ELSE NoError,
              reads |-> {LinkIndex(pos)}]

\* mutant: even rows ordered like odd rows
compare_position_one_way(a, b) ==
    LET cmp(p, q) == IF p < q THEN "Less"
                     ELSE IF p > q THEN "Greater" ELSE "Equal"
    IN  IF a[2] # b[2] THEN cmp(a[2], b[2]) ELSE cmp(a[1], b[1])

compare_position_thread_order(a, b) ==
    LET cmp(p, q) == IF p < q THEN "Less"
                     ELSE IF p > q THEN "Greater" ELSE "Equal"
    IN  IF a[2] # b[2] THEN cmp(a[2], b[2])
        ELSE IF a[2] % 2 = 0 THEN cmp(b[1], a[1])
        ELSE cmp(a[1], b[1])

MapInsert(m, key, val) ==
    [p \in DOMAIN m \cup {key} |-> IF p = key THEN val ELSE m[p]]

\* mutant: the link stored as given, without orienting it
OrientLinkAsGiven(m, l) == MapInsert(m, l.source, l.dest)

\* mutant: the earlier endpoint becomes the key
OrientLinkReversed(m, l) ==
    IF compare_position_thread_order(l.source, l.dest) = "Greater"
    THEN MapInsert(m, l.dest, l.source)
    ELSE MapInsert(m, l.source, l.dest)

\* if compare(source, dest).is_gt() insert(source, dest)
\* else insert(dest, source)
OrientLink(m, l) ==
    IF compare_position_thread_order(l.source, l.dest) = "Greater"
    THEN MapInsert(m, l.source, l.dest)
    ELSE MapInsert(m, l.dest, l.source)

\* mutant: the two gap constants exchanged
TooFarSwapped(l) ==
    \/ AbsDiff(l.source[1], l.dest[1]) > MAX_ROW_GAP
    \/ AbsDiff(l.source[2], l.dest[2]) > MAX_STITCH_GAP

\* the gap test of links_to_hash (without the allow_link_gaps switch)
TooFar(l) ==
    \/ AbsDiff(l.source[1], l.dest[1]) > MAX_STITCH_GAP
    \/ AbsDiff(l.source[2], l.dest[2]) > MAX_ROW_GAP

\* mutant: the source colour compared with itself
ColorsDifferSelf(st, l) ==
    look_up_link_position(st, l.source) # look_up_link_position(st, l.source)

\* look_up_link_position(link.source) != look_up_link_position(link.dest)
ColorsDiffer(st, l) ==
    look_up_link_position(st, l.source) # look_up_link_position(st, l.dest)

\* one iteration of the loop of links_to_hash over link l
LinkIteration(st, m, l) ==
    LET vs == validate_link_pos(st, l.source)
        vd == validate_link_pos(st, l.dest)
        rd == {LinkIndex(l.source), LinkIndex(l.dest)}
    IN  IF vs.err # NoError
        THEN [err |-> vs.err, reads |-> vs.reads, map |-> m]
        ELSE IF vd.err # NoError
        THEN [err |-> vd.err, reads |-> vs.reads \cup vd.reads, map |-> m]
        ELSE IF ~dims.allow_link_gaps /\ TooFar(l)
        THEN [err |-> LinkTooFar(l), reads |-> vs.reads \cup vd.reads,
              map |-> m]
        ELSE IF ColorsDiffer(st, l)
        THEN [err |-> LinkToDifferentColor(l),
              reads |-> vs.reads \cup vd.reads \cup rd, map |-> m]
        ELSE [err |-> NoError, reads |-> vs.reads \cup vd.reads \cup rd,
              map |-> OrientLink(m, l)]

\* links_to_hash over the links ls[i..], starting from map m
RECURSIVE links_to_hash(_, _, _, _)
links_to_hash(st, m, ls, i) ==
    IF i > Len(ls) THEN [err |-> NoError, map |-> m]
    ELSE LET r == LinkIteration(st, m, ls[i])
         IN  IF r.err # NoError THEN [err |-> r.err, map |-> m]
             ELSE links_to_hash(st, r.map, ls, i + 1)

(* --------------------------- thread sweep ----------------------------- *)
\* Ok(Some(i)) is idx = i + 1, Ok(None) is idx = 0
find_thread_in_links(ths, m, x, y) ==
    LET source == <<n_stitches - x, n_rows - y>>
    IN  IF source \in DOMAIN m
        THEN LET dest == m[source]
                 hit == {i \in 1 .. Len(ths) :
                            /\ ths[i].x = n_stitches - dest[1]
                            /\ ths[i].y = n_rows - dest[2]}
             IN  IF hit # {}
                 THEN [err |-> NoError,
                       idx |-> CHOOSE i \in hit : \A j \in hit : i <= j]
                 ELSE [err |-> LinkNotFound([source |-> source,
                                             dest |-> dest]),
                       idx |-> 0]
        ELSE [err |-> NoError, idx |-> 0]

\* the reverse walk of find_neighboring_thread from element i downwards:
\* 0 is None, -1 an overflow of thread.y - y
RECURSIVE NeighborFrom(_, _, _, _, _)
NeighborFrom(ths, color, x, y, i) ==
    IF i = 0 THEN 0
    ELSE IF ths[i].y < y THEN -1
    ELSE IF ths[i].y - y > MAX_ROW_GAP THEN 0
    ELSE IF ths[i].color # color THEN NeighborFrom(ths, color, x, y, i - 1)
    ELSE IF AbsDiff(ths[i].x, x) <= MAX_STITCH_GAP THEN i
    ELSE NeighborFrom(ths, color, x, y, i - 1)

\* mutant: the colour test of the walk left out
RECURSIVE NeighborAnyColor(_, _, _, _, _)
NeighborAnyColor(ths, color, x, y, i) ==
    IF i = 0 THEN 0
    ELSE IF ths[i].y < y THEN -1
    ELSE IF ths[i].y - y > MAX_ROW_GAP THEN 0
    ELSE IF AbsDiff(ths[i].x, x) <= MAX_STITCH_GAP THEN i
    ELSE NeighborAnyColor(ths, color, x, y, i - 1)

find_neighboring_thread_any_color(ths, color, x, y) ==
    NeighborAnyColor(ths, color, x, y, Len(ths))

\* mutant: the walk stops at the first thread parked on another row
RECURSIVE NeighborSameRow(_, _, _, _, _)
NeighborSameRow(ths, color, x, y, i) ==
    IF i = 0 THEN 0
    ELSE IF ths[i].y < y THEN -1
    ELSE IF ths[i].y - y > 0 THEN 0
    ELSE IF ths[i].color # color THEN NeighborSameRow(ths, color, x, y, i - 1)
    ELSE IF AbsDiff(ths[i].x, x) <= MAX_STITCH_GAP THEN i
    ELSE NeighborSameRow(ths, color, x, y, i - 1)

find_neighboring_thread_same_row(ths, color, x, y) ==
    NeighborSameRow(ths, color, x, y, Len(ths))

\* mutant: the walk accepts a thread two columns away
RECURSIVE NeighborWide(_, _, _, _, _)
NeighborWide(ths, color, x, y, i) ==
    IF i = 0 THEN 0
    ELSE IF ths[i].y < y THEN -1
    ELSE IF ths[i].y - y > MAX_ROW_GAP THEN 0
    ELSE IF ths[i].color # color THEN NeighborWide(ths, color, x, y, i - 1)
    ELSE IF AbsDiff(ths[i].x, x) <= MAX_STITCH_GAP + 1 THEN i
    ELSE NeighborWide(ths, color, x, y, i - 1)

find_neighboring_thread_wide(ths, color, x, y) ==
    NeighborWide(ths, color, x, y, Len(ths))

find_neighboring_thread(ths, color, x, y) ==
    NeighborFrom(ths, color, x, y, Len(ths))

RemoveAt(s, i) == [j \in 1 .. (Len(s) - 1) |-> IF j < i THEN s[j] ELSE s[j + 1]]

\* mutant: the relocated thread numbered again like a new one
RelocateRenumber(ths, i, x, y) ==
    Append(RemoveAt(ths, i),
           [ths[i] EXCEPT !.x = x, !.y = y, !.id = Len(ths) - 1])

\* mutant: the matched thread is moved without leaving its place in the list
RelocateInPlace(ths, i, x, y) ==
    LET moved == [ths EXCEPT ![i].x = x, ![i].y = y]
        last == Len(ths)
    IN  [moved EXCEPT ![i] = moved[last], ![last] = moved[i]]

\* mutant: the matched thread is pushed without taking the new position
RelocateStale(ths, i, x, y) == Append(RemoveAt(ths, i), ths[i])

\* threads.remove(i); thread.x = x; thread.y = y; threads.push(thread)
Relocate(ths, i, x, y) ==
    Append(RemoveAt(ths, i), [ths[i] EXCEPT !.x = x, !.y = y])

\* mutant: a new thread starts with stitch_count 1
NewThreadCounted(ths, color, x, y) ==
    Append(ths, [x |-> x, y |-> y, id |-> Len(ths) % 65536,
                 color |-> color, stitch_count |-> 1])

\* threads.push(Thread { x, y, id: threads.len() as u16, color, 0 })
NewThread(ths, color, x, y) ==
    Append(ths, [x |-> x, y |-> y, id |-> Len(ths) % 65536,
                 color |-> color, stitch_count |-> 0])

\* mutant: a link whose thread is not found falls back to the neighbour rule
find_thread_fall_back(ths, m, color, x, y) ==
    LET l == find_thread_in_links(ths, m, x, y)
        n == find_neighboring_thread(ths, color, x, y)
    IN  IF l.idx # 0
        THEN [err |-> NoError, threads |-> Relocate(ths, l.idx, x, y)]
        ELSE IF n = -1 THEN [err |-> Panic, threads |-> ths]
        ELSE IF n # 0
        THEN [err |-> NoError, threads |-> Relocate(ths, n, x, y)]
        ELSE [err |-> NoError, threads |-> NewThread(ths, color, x, y)]

\* the thread list after find_thread; the chosen thread is its last element
find_thread(ths, m, color, x, y) ==
    LET l == find_thread_in_links(ths, m, x, y)
        n == find_neighboring_thread(ths, color, x, y)
    IN  IF l.err # NoError THEN [err |-> l.err, threads |-> ths]
        ELSE IF l.idx # 0
        THEN [err |-> NoError, threads |-> Relocate(ths, l.idx, x, y)]
        ELSE IF n = -1 THEN [err |-> Panic, threads |-> ths]
        ELSE IF n # 0
        THEN [err |-> NoError, threads |-> Relocate(ths, n, x, y)]
        ELSE [err |-> NoError, threads |-> NewThread(ths, color, x, y)]

\* mutant: every row swept right to left
SweepXOneWay(c) == n_stitches - 1 - (c % n_stitches)

\* the internal position of the c-th cell the sweep visits (c = 0, 1, ...)
SweepY(c) == n_rows - 1 - (c \div n_stitches)
SweepX(c) ==
    IF (n_rows - 1 - SweepY(c)) % 2 = 0
    THEN n_stitches - 1 - (c % n_stitches)
    ELSE c % n_stitches

\* the body of the loops of calculate_threads for the c-th cell
VisitCell(st, ths, m, c) ==
    LET x == SweepX(c)
        y == SweepY(c)
        stitch_pos == x + y * n_stitches
    IN  IF ~st[stitch_pos].some
        THEN [err |-> NoError, stitches |-> st, threads |-> ths]
        ELSE LET f == find_thread(ths, m, st[stitch_pos].color, x, y)
                 n == Len(f.threads)
                 t == f.threads[n]
             IN  IF f.err # NoError
                 THEN [err |-> f.err, stitches |-> st, threads |-> ths]
                 ELSE [err |-> NoError,
                       stitches |-> [st EXCEPT ![stitch_pos].thread = t.id],
                       threads |-> [f.threads EXCEPT
                           ![n].stitch_count = t.stitch_count + 1]]

\* self.threads.sort_unstable_by_key(|thread| thread.id)
RECURSIVE SortById(_)
SortById(ths) ==
    IF Len(ths) = 0 THEN << >>
    ELSE LET lo == CHOOSE i \in 1 .. Len(ths) :
                     \A j \in 1 .. Len(ths) :
                        \/ ths[i].id < ths[j].id
                        \/ (ths[i].id = ths[j].id /\ i <= j)
         IN  <<ths[lo]>> \o SortById(RemoveAt(ths, lo))

\* calculate_threads from the c-th cell on
RECURSIVE calculate_threads(_, _, _, _)
calculate_threads(st, ths, m, c) ==
    IF c >= n_rows * n_stitches
    THEN [err |-> NoError, stitches |-> st, threads |-> SortById(ths)]
    ELSE LET r == VisitCell(st, ths, m, c)
         IN  IF r.err # NoError THEN r
             ELSE calculate_threads(r.stitches, r.threads, m, c + 1)

\* the part of Fabric::new after resampling, for sampled stitches st and
\* link list ls: links_to_hash(dimensions)? then calculate_threads(..)?
BuildThreads(st, ls) ==
    LET h == links_to_hash(st, [p \in {} |-> <<0, 0>>], ls, 1)
    IN  IF h.err # NoError
        THEN [err |-> h.err, stitches |-> st, threads |-> << >>]
        ELSE calculate_threads(st, << >>, h.map, 0)

(* --------------------------- chart labels ----------------------------- *)
\* a u32 as its two 16-bit halves (the value is hi * 65536 + lo)
U32(v) == [hi |-> v \div 65536, lo |-> v % 65536]
U32_MAX == [hi |-> 65535, lo |-> 65535]

\* mm + c for a small c, in u32: the sum, or on overflow a panic (overflow
\* checks on) or the wrapped sum (overflow checks off)
U32Add(a, c) ==
    LET lo == a.lo + c
        hi == a.hi + lo \div 65536
    IN  IF hi > 65535
        THEN { [panic |-> TRUE],
               [panic |-> FALSE, hi |-> hi % 65536, lo |-> lo % 65536] }
        ELSE { [panic |-> FALSE, hi |-> hi, lo |-> lo % 65536] }

\* a / 10 in u32; the quotient is below 2^29
U32Div10(a) ==
    (a.hi \div 10) * 65536 + ((a.hi % 10) * 65536 + a.lo) \div 10

\* write!(out, "{}", n): the decimal digits of n, one character each
Digit(d) == <<"0", "1", "2", "3", "4", "5", "6", "7", "8", "9">>[d + 1]
RECURSIVE Display(_)
Display(n) ==
    IF n < 10 THEN << Digit(n) >> ELSE Append(Display(n \div 10), Digit(n % 10))

\* the loop "while rem_cm > 0" of mm_to_text: the characters written and
\* the number of iterations
RECURSIVE DigitLoop(_)
DigitLoop(rem_cm) ==
    IF rem_cm > 0
    THEN LET rest == DigitLoop((rem_cm * 10) % 100)
         IN  [out |-> Display(rem_cm \div 10) \o rest.out,
              loops |-> rest.loops + 1]
    ELSE [out |-> << >>, loops |-> 0]

\* what the else branch of mm_to_text writes, given the sum v = mm + 5
CmToText(v) ==
    LET cm == U32Div10(v)
        rem_cm == cm % 100
        digits == DigitLoop(rem_cm)
    IN  IF cm < 100
        THEN [panic |-> FALSE, out |-> Display(cm) \o <<"c", "m">>, loops |-> 0]
        ELSE [panic |-> FALSE,
              out |-> Display(cm \div 100)
                      \o (IF rem_cm > 0 THEN <<".">> \o digits.out ELSE << >>)
                      \o <<"m">>,
              loops |-> digits.loops]

\* the outcomes of mm_to_text(out, mm)
mm_to_text(mm) ==
    IF mm.hi = 0 /\ mm.lo < 10
    THEN { [panic |-> FALSE, out |-> Display(mm.lo) \o <<"m", "m">>,
            loops |-> 0] }
    ELSE { IF v.panic THEN [panic |-> TRUE, out |-> << >>, loops |-> 0]
           ELSE CmToText(v) : v \in U32Add(mm, 5) }

\* char::from_u32('A' as u32 + d).unwrap() for d below 26
Letter(d) ==
    << "A", "B", "C", "D", "E", "F", "G", "H", "I", "J", "K", "L", "M",
       "N", "O", "P", "Q", "R", "S", "T", "U", "V", "W", "X", "Y", "Z" >>[d + 1]

\* the loop "while id > 0" of generate_defs: the characters pushed onto
\* parts, in the order of the pushes, and the number of iterations
RECURSIVE PartsLoop(_)
PartsLoop(id) ==
    IF id > 0
    THEN LET rest == PartsLoop(id \div 26)
         IN  [parts |-> << Letter(id % 26) >> \o rest.parts,
              loops |-> rest.loops + 1]
    ELSE [parts |-> << >>, loops |-> 0]

\* mutant: the parts collected in the order of the pushes
Unreversed(s) == s

\* parts.iter().rev().collect::<String>()
Reversed(s) == [i \in 1 .. Len(s) |-> s[Len(s) + 1 - i]]

\* the text generate_defs gives the glyph of thread id
thread_text(id) ==
    IF id = 0 THEN [out |-> << "A" >>, loops |-> 0]
    ELSE LET p == PartsLoop(id)
         IN  [out |-> Reversed(p.parts), loops |-> p.loops]

\* v * 10 in u32, for a product below 2^32
U32Times10(v) ==
    LET lo == (v % 65536) * 10
    IN  [hi |-> (v \div 65536) * 10 + lo \div 65536, lo |-> lo % 65536]

\* Option<f32>: None, or Some(value) for a whole number of centimetres
NoCm == [some |-> FALSE]
SomeCm(c) == [some |-> TRUE, value |-> c]

\* the mm of stitch_count_text; "as u32" saturates at u32::MAX
YarnMm(d, cm_per_stitch, n) ==
    IF cm_per_stitch.some
    THEN \* (n_stitches as f32 * cm_per_stitch * 10.0).round() as u32
         IF n > 0 /\ cm_per_stitch.value > 429496729 \div n THEN U32_MAX
         ELSE U32Times10(n * cm_per_stitch.value)
    ELSE \* ((n * 100 * 3 + gauge_stitches / 2) / gauge_stitches).round()
         U32(RoundDiv(2 * n * 100 * 3 + d.gauge_stitches,
                      2 * d.gauge_stitches))

\* the Vecs count_color_stitches may return: one (colour, total) entry per
\* thread colour, collected in the iteration order of the HashMap and then
\* sorted (stably) by decreasing total, so equal totals keep any order
count_color_stitches(ths) ==
    LET cols == {ths[i].color : i \in 1 .. Len(ths)}
        RECURSIVE Total(_, _)
        Total(c, i) ==
            IF i = 0 THEN 0
            ELSE (IF ths[i].color = c THEN ths[i].stitch_count ELSE 0)
                    + Total(c, i - 1)
        entries == {<<c, Total(c, Len(ths))>> : c \in cols}
    IN  { v \in [1 .. Cardinality(cols) -> entries] :
            /\ \A i, j \in DOMAIN v : i # j => v[i] # v[j]
            /\ \A i, j \in DOMAIN v : i < j => v[i][2] >= v[j][2] }

(* ------------------------------ main ---------------------------------- *)
\* link endpoints (u16, u16): every cell of the fabric, the positions one
\* step outside it on each side (x = 0, x = n_stitches + 1, y = 0,
\* y = n_rows + 1), and the two corners of the u16 range
LinkPositions ==
    ((1 .. n_stitches) \X (1 .. n_rows))
        \cup { <<0, 1>>, <<n_stitches + 1, 1>>, <<1, 0>>, <<1, n_rows + 1>>,
               <<0, 0>>, <<65535, 65535>> }
LinkSet == { [source |-> s, dest |-> d] : s \in LinkPositions, d \in LinkPositions }

Init ==
    /\ pc = "open"
    /\ mitre = NoMitre
    /\ alloc = NoAlloc
    /\ label = NoLabel
    /\ dims \in DimensionsSet
    /\ image = NoImage
    /\ stitches = EmptyVec
    /\ n_stitches = 0
    /\ n_rows = 0
    /\ threads = << >>
    /\ ry = -1
    /\ links = << >>
    /\ link = NoLink
    /\ link_map = [p \in {} |-> <<0, 0>>]
    /\ reads = {}
    /\ k = 0
    /\ err = NoError
    /\ svg = FALSE
    /\ output_created = FALSE
    /\ output_written = FALSE
    /\ exit_code = "running"

\* main's "eprintln!(..); return ExitCode::FAILURE" arms
ExitFailure ==
    /\ pc' = "exit"
    /\ exit_code' = "FAILURE"

\* mutant: the error is recorded but main goes on to create the output
FailBuildGoOn(e) ==
    /\ err' = e
    /\ pc' = "create"
    /\ exit_code' = exit_code

\* build_svg returned Err(e) (the ? operators up to main), or the process
\* panicked
FailBuild(e) ==
    /\ err' = e
    /\ pc' = "exit"
    /\ exit_code' = IF e = Panic THEN "PANIC" ELSE "FAILURE"

\* image::io::Reader::open(&config.files.input)
MainOpen ==
    /\ pc = "open"
    /\ \E ok \in BOOLEAN :
          IF ok THEN pc' = "decode" /\ UNCHANGED exit_code ELSE ExitFailure
    /\ UNCHANGED <<alloc, label, mitre, dims, image, stitches, n_stitches, n_rows, threads, ry,
                   links, link, link_map, reads, k, err, svg, output_created,
                   output_written>>

\* image.decode()
MainDecode ==
    /\ pc = "decode"
    /\ \E ok \in BOOLEAN :
          IF ok THEN pc' = "convert" /\ UNCHANGED exit_code ELSE ExitFailure
    /\ UNCHANGED <<alloc, label, mitre, dims, image, stitches, n_stitches, n_rows, threads, ry,
                   links, link, link_map, reads, k, err, svg, output_created,
                   output_written>>

\* the match on the DynamicImage variant: an RGBA image, or unsupported
MainConvert ==
    /\ pc = "convert"
    /\ \/ \E img \in Images :
             /\ image' = img
             /\ pc' = "new"
             /\ UNCHANGED exit_code
       \/ ExitFailure /\ UNCHANGED image
    /\ UNCHANGED <<alloc, label, mitre, dims, stitches, n_stitches, n_rows, threads, ry, links,
                   link, link_map, reads, k, err, svg, output_created,
                   output_written>>

\* the images given to make_mitre_fabric
MitreSources ==
    UNION { { [width |-> w, height |-> h, pixels |-> p] :
                p \in [0 .. (w * h - 1) -> ColorOpt] } :
            <<w, h>> \in (1 .. MaxMitreSide) \X (1 .. MaxMitreSide) }

\* links a caller may give: along the bottom row, up the right edge, and
\* across the whole bottom row
MitreLinkSet ==
    { [source |-> <<1, 1>>, dest |-> <<2, 1>>],
      [source |-> <<1, 2>>, dest |-> <<1, 1>>],
      [source |-> <<2 * dims.stitches, 1>>, dest |-> <<1, 1>>] }

RECURSIVE SeqsUpTo(_, _)
SeqsUpTo(S, n) ==
    IF n = 0 THEN { << >> }
    ELSE SeqsUpTo(S, n - 1)
            \cup { Append(sq, e) : sq \in { t \in SeqsUpTo(S, n - 1) :
                                              Len(t) = n - 1 }, e \in S }

\* make_mitre_fabric up to its call of Fabric::new: the MitreImage and the
\* Dimensions shadow the caller's, the seam links follow the caller's links
MakeMitreFabric ==
    /\ pc = "mitre"
    /\ \E mi \in MitreImageNew(image, dims.stitches),
          cl \in SeqsUpTo(MitreLinkSet, MaxMitreLinks) :
          /\ mitre' = [source |-> image, stitches |-> dims.stitches,
                       caller |-> cl,
                       links |-> IF mi.height > 1 THEN SeamLoop(mi, 0, cl)
                                 ELSE cl]
          /\ image' = mi
          /\ dims' = MitreDimensions(dims, mi)
    /\ pc' = "new"
    /\ UNCHANGED <<alloc, label, stitches, n_stitches, n_rows, threads, ry, links,
                   link, link_map, reads, k, err, svg, output_created,
                   output_written, exit_code>>

\* Fabric::new up to the resampling loop: n_rows and the resize
FabricNew ==
    /\ pc = "new"
    /\ n_rows' = NRows
    /\ n_stitches' = dims.stitches
    /\ stitches' = [i \in 0 .. (((NRows * dims.stitches) % 65536) - 1)
                       |-> NoStitch]
    /\ ry' = NRows - 1
    /\ pc' = IF NRows = 0 THEN "links" ELSE "resample"
    /\ UNCHANGED <<alloc, label, mitre, dims, image, threads, links, link, link_map, reads, k,
                   err, svg, output_created, output_written, exit_code>>

\* one iteration of "for y in (0..n_rows).rev().step_by(duplicate_rows)"
ResampleRow ==
    /\ pc = "resample"
    /\ IF \E x \in 0 .. (dims.stitches - 1) : CellColors(x, ry) = {}
       THEN FailBuild(Panic) /\ UNCHANGED <<stitches, ry>>
       ELSE /\ \E row \in [0 .. (dims.stitches - 1) -> ColorOpt] :
                  /\ \A x \in 0 .. (dims.stitches - 1) :
                        row[x] \in CellColors(x, ry)
                  /\ stitches' = CopyRows(stitches, row, ry)
            /\ ry' = IF ry - dims.duplicate_rows >= 0
                     THEN ry - dims.duplicate_rows ELSE -1
            /\ pc' = IF ry - dims.duplicate_rows >= 0
                     THEN "resample" ELSE "links"
            /\ UNCHANGED <<err, exit_code>>
    /\ UNCHANGED <<alloc, label, mitre, dims, image, n_stitches, n_rows, threads, links, link,
                   link_map, reads, k, svg, output_created, output_written>>

\* the body of "for link in dimensions.links.iter()" for the next link l
LinksToHashBody(l) ==
    LET r == LinkIteration(stitches, link_map, l)
    IN  /\ link' = l
        /\ links' = Append(links, l)
        /\ reads' = reads \cup r.reads
        /\ link_map' = r.map
        /\ IF r.err # NoError
           THEN FailBuild(r.err)
           ELSE UNCHANGED <<pc, err, exit_code>>
        /\ UNCHANGED <<alloc, label, mitre, dims, image, stitches, n_stitches, n_rows, threads, ry,
                       k, svg, output_created, output_written>>

\* one iteration of "for link in dimensions.links.iter()"
LinksToHashStep ==
    /\ pc = "links"
    /\ Len(links) < MaxLinks
    /\ \E l \in LinkSet : LinksToHashBody(l)

\* one iteration of links_to_hash over the list make_mitre_fabric built
MitreLinksStep ==
    /\ pc = "links"
    /\ Len(links) < Len(mitre.links)
    /\ LinksToHashBody(mitre.links[Len(links) + 1])

\* the link list is exhausted: Ok(link_map), calculate_threads begins
LinksToHashDone ==
    /\ pc = "links"
    /\ pc' = "sweep"
    /\ k' = 0
    /\ UNCHANGED <<alloc, label, mitre, dims, image, stitches, n_stitches, n_rows, threads, ry,
                   links, link, link_map, reads, err, svg, output_created,
                   output_written, exit_code>>

\* one cell of the loops of calculate_threads
CalculateThreadsStep ==
    /\ pc = "sweep"
    /\ k < n_rows * n_stitches
    /\ LET r == VisitCell(stitches, threads, link_map, k)
       IN  IF r.err # NoError
           THEN FailBuild(r.err) /\ UNCHANGED <<stitches, threads, k>>
           ELSE /\ stitches' = r.stitches
                /\ threads' = r.threads
                /\ k' = k + 1
                /\ UNCHANGED <<pc, err, exit_code>>
    /\ UNCHANGED <<alloc, label, mitre, dims, image, n_stitches, n_rows, ry, links, link,
                   link_map, reads, svg, output_created, output_written>>

\* the sort that ends calculate_threads, Ok(fabric), and the infallible
\* fabric_svg::convert of build_svg
CalculateThreadsDone ==
    /\ pc = "sweep"
    /\ k >= n_rows * n_stitches
    /\ threads' = SortById(threads)
    /\ svg' = TRUE
    /\ pc' = "create"
    /\ UNCHANGED <<alloc, label, mitre, dims, image, stitches, n_stitches, n_rows, ry, links,
                   link, link_map, reads, k, err, output_created,
                   output_written, exit_code>>

\* File::create(&config.files.output)
MainCreate ==
    /\ pc = "create"
    /\ \E ok \in BOOLEAN :
          IF ok
          THEN output_created' = TRUE /\ pc' = "write" /\ UNCHANGED exit_code
          ELSE ExitFailure /\ UNCHANGED output_created
    /\ UNCHANGED <<alloc, label, mitre, dims, image, stitches, n_stitches, n_rows, threads, ry,
                   links, link, link_map, reads, k, err, svg, output_written>>

\* svg.write(output)
MainWrite ==
    /\ pc = "write"
    /\ \E ok \in BOOLEAN :
          IF ok
          THEN output_written' = TRUE /\ pc' = "exit" /\ exit_code' = "SUCCESS"
          ELSE ExitFailure /\ UNCHANGED output_written
    /\ UNCHANGED <<alloc, label, mitre, dims, image, stitches, n_stitches, n_rows, threads, ry,
                   links, link, link_map, reads, k, err, svg, output_created>>

Next ==
    \/ MainOpen
    \/ MainDecode
    \/ MainConvert
    \/ FabricNew
    \/ ResampleRow
    \/ LinksToHashStep
    \/ LinksToHashDone
    \/ CalculateThreadsStep
    \/ CalculateThreadsDone
    \/ MainCreate
    \/ MainWrite

Spec == Init /\ [][Next]_vars

\* the list make_mitre_fabric built is exhausted
MitreLinksDone ==
    /\ Len(links) = Len(mitre.links)
    /\ LinksToHashDone

\* build_svg with config.mitre set, from the call of make_mitre_fabric
MitreInit ==
    /\ pc = "mitre"
    /\ mitre = NoMitre
    /\ alloc = NoAlloc
    /\ label = NoLabel
    /\ dims \in DimensionsSet
    /\ image \in MitreSources
    /\ stitches = EmptyVec
    /\ n_stitches = 0
    /\ n_rows = 0
    /\ threads = << >>
    /\ ry = -1
    /\ links = << >>
    /\ link = NoLink
    /\ link_map = [p \in {} |-> <<0, 0>>]
    /\ reads = {}
    /\ k = 0
    /\ err = NoError
    /\ svg = FALSE
    /\ output_created = FALSE
    /\ output_written = FALSE
    /\ exit_code = "running"

MitreNext ==
    \/ MakeMitreFabric
    \/ FabricNew
    \/ ResampleRow
    \/ MitreLinksStep
    \/ MitreLinksDone
    \/ CalculateThreadsStep
    \/ CalculateThreadsDone

SpecMitre == MitreInit /\ [][MitreNext]_vars

(* ----------------------- labels of the chart -------------------------- *)
\* the arguments mm_to_text is called with (test::mm_to_string)
MmCalls ==
    { [call |-> "mm_to_text", n |-> 0, cm_per_stitch |-> NoCm, mm |-> m,
       out |-> << >>, loops |-> 0, panic |-> FALSE] :
        m \in { U32(v) : v \in 0 .. MaxMm }
                \cup { [hi |-> 65535, lo |-> 65535 - t] : t \in 0 .. MaxTop } }

\* the arguments stitch_count_text is called with
CountCalls ==
    { [call |-> "stitch_count_text", n |-> n, cm_per_stitch |-> c,
       mm |-> U32(0), out |-> << >>, loops |-> 0, panic |-> FALSE] :
        n \in 0 .. MaxCount, c \in {NoCm, SomeCm(100), SomeCm(1000000000)} }

\* Dimensions::default() with the stitch gauge of the call
TextDimensions ==
    { [stitches |-> 22, gauge_stitches |-> g, gauge_rows |-> 30,
       duplicate_rows |-> 1, allow_link_gaps |-> FALSE] :
        g \in {1, 21, 22, 31} }

\* the thread ids generate_defs meets
DefsIds == (0 .. MaxId) \cup { 65535 - t : t \in 0 .. MaxTop }

\* the iterations of "for thread in self.fabric.threads().iter()"
DefsCalls ==
    { [call |-> "generate_defs", n |-> id, cm_per_stitch |-> NoCm,
       mm |-> U32(0), out |-> << >>, loops |-> 0, panic |-> FALSE] :
        id \in DefsIds }

TextInit ==
    /\ pc = "text"
    /\ \/ label \in MmCalls \cup DefsCalls
          /\ dims \in { d \in TextDimensions : d.gauge_stitches = 22 }
       \/ label \in CountCalls /\ dims \in TextDimensions
    /\ mitre = NoMitre
    /\ alloc = NoAlloc
    /\ image = NoImage
    /\ stitches = EmptyVec
    /\ n_stitches = 0
    /\ n_rows = 0
    /\ threads = << >>
    /\ ry = -1
    /\ links = << >>
    /\ link = NoLink
    /\ link_map = [p \in {} |-> <<0, 0>>]
    /\ reads = {}
    /\ k = 0
    /\ err = NoError
    /\ svg = FALSE
    /\ output_created = FALSE
    /\ output_written = FALSE
    /\ exit_code = "running"

\* mm_to_text(&mut result, mm)
MmToText ==
    /\ pc = "text"
    /\ label.call = "mm_to_text"
    /\ \E r \in mm_to_text(label.mm) :
          label' = [label EXCEPT !.out = r.out, !.loops = r.loops,
                                 !.panic = r.panic]
    /\ pc' = "text_done"
    /\ UNCHANGED <<alloc, mitre, dims, image, stitches, n_stitches, n_rows, threads,
                   ry, links, link, link_map, reads, k, err, svg,
                   output_created, output_written, exit_code>>

\* stitch_count_text(dimensions, n_stitches)
StitchCountText ==
    /\ pc = "text"
    /\ label.call = "stitch_count_text"
    /\ LET mm == YarnMm(dims, label.cm_per_stitch, label.n)
       IN  \E r \in mm_to_text(mm) :
              label' = [label EXCEPT
                           !.mm = mm,
                           !.out = IF r.panic THEN << >>
                                   ELSE Display(label.n) \o <<" ", "(">>
                                        \o r.out \o <<")">>,
                           !.loops = r.loops,
                           !.panic = r.panic]
    /\ pc' = "text_done"
    /\ UNCHANGED <<alloc, mitre, dims, image, stitches, n_stitches, n_rows, threads,
                   ry, links, link, link_map, reads, k, err, svg,
                   output_created, output_written, exit_code>>

\* one iteration of the loop of generate_defs, for a thread of id label.n
GenerateDefs ==
    /\ pc = "text"
    /\ label.call = "generate_defs"
    /\ label' = [label EXCEPT !.out = thread_text(label.n).out,
                              !.loops = thread_text(label.n).loops]
    /\ pc' = "text_done"
    /\ UNCHANGED <<alloc, mitre, dims, image, stitches, n_stitches, n_rows,
                   threads, ry, links, link, link_map, reads, k, err, svg,
                   output_created, output_written, exit_code>>

TextNext ==
    \/ MmToText
    \/ StitchCountText
    \/ GenerateDefs

SpecText == TextInit /\ [][TextNext]_vars

(* ------------- the 16-bit products of Fabric::new --------------------- *)
\* a * b on two u16: the product, or when it exceeds u16::MAX a panic (-1,
\* a build with overflow checks) or the product modulo 2^16 (a build
\* without them)
Mul16(a, b) ==
    IF a * b <= 65535 THEN a * b
    ELSE IF alloc.checks THEN -1
    ELSE (a * b) % 65536

AllocSides == {2, 3, MaxSide - 2, MaxSide - 1, MaxSide}
\* the stitch counts make_mitre_fabric is called with
MitreAllocSides == {MaxSide \div 2, MaxSide \div 2 + 1}

\* an image of w x h pixels, all of colour "a".  Its pixels are not
\* spelled out: with stitches = w and equal gauges every footprint of the
\* resampling loop is one pixel, so every cell gets colour "a"
UniformImage(w, h) == [width |-> w, height |-> h, pixels |-> [i \in {} |-> None]]

\* MitreImage::new(image, n) for a source image of n x n pixels of colour
\* "a": width() is 2n and height() is n; the pixels are not spelled out
MitreOfUniform(n) ==
    [width |-> n * 2, height |-> n, pixels |-> [i \in {} |-> None]]

\* the links the seam loop of make_mitre_fabric pushes for that image from
\* iteration y on (two for each iteration): both pixels of every row are
\* present and equal
UniformSeamLinks(n, y) ==
    [i \in 1 .. (2 * (n - 1 - y)) |->
        LET yy == y + (i - 1) \div 2
        IN  SeamPair(n - yy - 2, n + yy + 1, yy * 2 + 3)[((i - 1) % 2) + 1]]

\* Fabric::new(image, dimensions) in a build with or without overflow
\* checks: called by build_svg for a plain image at stitch resolution
\* without links, or by make_mitre_fabric for a plain source image and no
\* links of the caller
AllocInit ==
    /\ pc = "new"
    /\ alloc \in { [NoAlloc EXCEPT !.checks = c] : c \in BOOLEAN }
    /\ label = NoLabel
    /\ \/ /\ mitre = NoMitre
          /\ \E w \in AllocSides, h \in AllocSides, d \in {1, 2} :
                /\ image = UniformImage(w, h)
                /\ dims = [stitches |-> w, gauge_stitches |-> 1,
                           gauge_rows |-> 1, duplicate_rows |-> d,
                           allow_link_gaps |-> FALSE]
       \/ \E n \in MitreAllocSides :
             /\ mitre = [source |-> UniformImage(n, n), stitches |-> n,
                         caller |-> << >>,
                         links |-> UniformSeamLinks(n, 0)]
             /\ image = MitreOfUniform(n)
             /\ dims = MitreDimensions(
                           [stitches |-> n, gauge_stitches |-> 1,
                            gauge_rows |-> 1, duplicate_rows |-> 1,
                            allow_link_gaps |-> FALSE],
                           MitreOfUniform(n))
    /\ stitches = EmptyVec
    /\ n_stitches = 0
    /\ n_rows = 0
    /\ threads = << >>
    /\ ry = -1
    /\ links = << >>
    /\ link = NoLink
    /\ link_map = [p \in {} |-> <<0, 0>>]
    /\ reads = {}
    /\ k = 0
    /\ err = NoError
    /\ svg = FALSE
    /\ output_created = FALSE
    /\ output_written = FALSE
    /\ exit_code = "running"

\* Fabric::new up to the resampling loop:
\* stitches.resize((n_rows * dimensions.stitches) as usize, None)
AllocNew ==
    /\ pc = "new"
    /\ n_rows' = NRows
    /\ n_stitches' = dims.stitches
    /\ LET len == Mul16(NRows, dims.stitches)
       IN  IF len = -1
           THEN FailBuild(Panic) /\ UNCHANGED <<alloc, ry>>
           ELSE /\ alloc' = [alloc EXCEPT !.len = len]
                /\ ry' = NRows - 1
                /\ pc' = "resample"
                /\ UNCHANGED <<err, exit_code>>
    /\ UNCHANGED <<label, mitre, dims, image, stitches, threads, links, link,
                   link_map, reads, k, svg, output_created, output_written>>

\* one iteration of the resampling loop, for its indices only:
\* stitches.split_at_mut((y * dimensions.stitches) as usize), row[x] for
\* every x below stitches, and the slices
\* before_row[((y - i - 1) * stitches) as usize..((y - i) * stitches) as usize]
\* that receive the copies.  split_at_mut, the index and the slices panic
\* when they reach beyond the vector
AllocRow ==
    /\ pc = "resample"
    /\ LET y == ry
           s == dims.stitches
           mid == Mul16(y, s)
           n == Min(dims.duplicate_rows - 1, y)
           from(i) == Mul16(y - i - 1, s)
           to(i) == Mul16(y - i, s)
           fails ==
               \/ mid = -1
               \/ mid > alloc.len
               \/ s > alloc.len - mid
               \/ \E i \in 0 .. (n - 1) :
                     \/ from(i) = -1 \/ to(i) = -1
                     \/ from(i) > to(i)
                     \/ to(i) > mid
                     \/ to(i) - from(i) # s
       IN  IF fails
           THEN FailBuild(Panic) /\ UNCHANGED <<alloc, ry, k>>
           ELSE /\ alloc' = [alloc EXCEPT
                                !.row = y, !.start = mid,
                                !.copies = {from(i) : i \in 0 .. (n - 1)}]
                /\ ry' = IF y - dims.duplicate_rows >= 0
                         THEN y - dims.duplicate_rows ELSE -1
                /\ pc' = IF y - dims.duplicate_rows >= 0
                         THEN "resample" ELSE "sweep"
                /\ k' = 0
                /\ UNCHANGED <<err, exit_code>>
    /\ UNCHANGED <<label, mitre, dims, image, stitches, n_stitches, n_rows,
                   threads, links, link, link_map, reads, svg, output_created,
                   output_written>>

\* one row of calculate_threads, for its indices only:
\* stitch_pos = (x + y * self.n_stitches) as usize for every x of the row;
\* the index panics when it is not below the length of the vector
AllocSweepRow ==
    /\ pc = "sweep"
    /\ k < n_rows
    /\ LET y == n_rows - 1 - k
           first == Mul16(y, n_stitches)
           fails ==
               \/ first = -1
               \/ first + n_stitches - 1 > 65535
               \/ first + n_stitches - 1 >= alloc.len
       IN  IF fails
           THEN FailBuild(Panic) /\ UNCHANGED <<alloc, k>>
           ELSE /\ alloc' = [alloc EXCEPT !.row = y, !.start = first,
                                          !.copies = {}]
                /\ k' = k + 1
                /\ UNCHANGED <<pc, err, exit_code>>
    /\ UNCHANGED <<label, mitre, dims, image, stitches, n_stitches, n_rows,
                   threads, ry, links, link, link_map, reads, svg,
                   output_created, output_written>>

\* the rows are exhausted: Ok(fabric)
AllocDone ==
    /\ pc = "sweep"
    /\ k >= n_rows
    /\ svg' = TRUE
    /\ pc' = "create"
    /\ UNCHANGED <<alloc, label, mitre, dims, image, stitches, n_stitches,
                   n_rows, threads, ry, links, link, link_map, reads, k, err,
                   output_created, output_written, exit_code>>

AllocNext ==
    \/ AllocNew
    \/ AllocRow
    \/ AllocSweepRow
    \/ AllocDone

SpecAlloc == AllocInit /\ [][AllocNext]_vars

(* ============================ properties ============================== *)
\* Fabric::new has returned Ok(fabric): the fabric is frozen
Built == svg

\* the colour of a cell, None when the stitch is absent
ColorAt(i) == IF stitches[i].some THEN stitches[i].color ELSE None

\* the stitch array index of a user position inside the grid
UserIndex(pos) == (n_rows - pos[2]) * n_stitches + (n_stitches - pos[1])

InGrid(pos) ==
    /\ pos[1] >= 1 /\ pos[1] <= n_stitches
    /\ pos[2] >= 1 /\ pos[2] <= n_rows

\* the position is outside the grid or addresses an absent stitch
BadEndpoint(pos) == ~InGrid(pos) \/ ~stitches[UserIndex(pos)].some

\* |dx| > 1 or |dy| > 2
ExceedsGap(l) ==
    \/ AbsDiff(l.source[1], l.dest[1]) > 1
    \/ AbsDiff(l.source[2], l.dest[2]) > 2

PresentCells == {i \in DOMAIN stitches : stitches[i].some}

RECURSIVE SumCounts(_, _)
SumCounts(ths, i) ==
    IF i = 0 THEN 0 ELSE ths[i].stitch_count + SumCounts(ths, i - 1)

(* C1: in every Fabric that Fabric::new returns, every present stitch has  *)
(* a thread number below the number of threads, and the thread with that   *)
(* number has the stitch's colour; an absent cell is None and so carries   *)
(* no thread.                                                              *)
C1_StitchThreadColor ==
    Built =>
        \A i \in DOMAIN stitches :
            IF stitches[i].some
            THEN /\ stitches[i].thread < Len(threads)
                 /\ threads[stitches[i].thread + 1].color = stitches[i].color
            ELSE stitches[i] = NoStitch

\* a built fabric with a link, an absent cell and two threads of one colour
C1_Witness ==
    /\ Built
    /\ Len(links) >= 1
    /\ \E i \in DOMAIN stitches : ~stitches[i].some
    /\ \E i, j \in 1 .. Len(threads) :
          i # j /\ threads[i].color = threads[j].color

(* C2 (as claimed): in the Fabric that Fabric::new returns, the two        *)
(* endpoints of every link of the list carry the same thread id, also      *)
(* when two links share an endpoint.                                       *)
C2_LinkEndpointsShareThread ==
    Built =>
        \A n \in 1 .. Len(links) :
            stitches[UserIndex(links[n].source)].thread
                = stitches[UserIndex(links[n].dest)].thread

(* C3: in every built Fabric each thread's stitch_count is the number of   *)
(* stitches whose thread field is the thread's id, and the counts add up   *)
(* to the number of present stitches.                                      *)
C3_StitchCounts ==
    Built =>
        /\ \A t \in 1 .. Len(threads) :
              threads[t].stitch_count =
                  Cardinality({i \in PresentCells :
                                  stitches[i].thread = threads[t].id})
        /\ SumCounts(threads, Len(threads)) = Cardinality(PresentCells)

\* a built fabric with three threads, one of them holding several stitches
C3_Witness ==
    /\ Built
    /\ Len(threads) >= 3
    /\ \E t \in 1 .. Len(threads) : threads[t].stitch_count >= 3

\* what one step may do to the thread list: every thread keeps its id and
\* colour, and at most one thread is added, numbered with the old length
IdsStable ==
    /\ \A i \in 1 .. Len(threads) :
          \E j \in 1 .. Len(threads') :
              /\ threads'[j].id = threads[i].id
              /\ threads'[j].color = threads[i].color
              /\ threads'[j].stitch_count >= threads[i].stitch_count
    /\ \/ Len(threads') = Len(threads)
       \/ /\ Len(threads') = Len(threads) + 1
          /\ threads'[Len(threads')].id = Len(threads)

(* C4: thread ids are handed out in creation order from 0 (at every       *)
(* moment the ids in the list are exactly 0 .. |threads|-1, each once),    *)
(* no step changes or reuses the id of a thread, relocation included, and  *)
(* in the built Fabric threads()[i].id = i for every i.                    *)
C4_ThreadIds ==
    /\ [](/\ {threads[i].id : i \in 1 .. Len(threads)}
                = 0 .. (Len(threads) - 1)
          /\ \A i, j \in 1 .. Len(threads) :
                threads[i].id = threads[j].id => i = j
          /\ Built => \A i \in 1 .. Len(threads) : threads[i].id = i - 1)
    /\ [][IdsStable]_vars

\* the sweep is over and relocations have left the list out of id order
C4_Witness ==
    /\ pc = "sweep"
    /\ k = n_rows * n_stitches
    /\ \E i, j \in 1 .. Len(threads) :
          i < j /\ threads[i].id > threads[j].id

\* the stitches as the resampling loop left them (thread: 0)
Sampled(st) ==
    [i \in DOMAIN st |-> IF st[i].some THEN [st[i] EXCEPT !.thread = 0]
                         ELSE st[i]]

\* the link list with source and dest of its n-th link exchanged
SwapLink(ls, n) ==
    [ls EXCEPT ![n] = [source |-> ls[n].dest, dest |-> ls[n].source]]

(* C5: when the build succeeds, building the same sampled grid with the    *)
(* source and dest of any one link exchanged (the other links and the      *)
(* order of the list unchanged) succeeds too and gives the same            *)
(* stitch-to-thread grid and the same thread list.                         *)
C5_SwapSourceDest ==
    Built =>
        \A n \in 1 .. Len(links) :
            BuildThreads(Sampled(stitches), SwapLink(links, n))
                = [err |-> NoError, stitches |-> stitches,
                   threads |-> threads]

\* a built fabric with two links, the first between two different cells
\* that only the link can join (more than one column apart)
C5_Witness ==
    /\ Built
    /\ Len(links) = 2
    /\ AbsDiff(links[1].source[1], links[1].dest[1]) > 1

(* C6: when links_to_hash examines a link with an endpoint that has x = 0, *)
(* x > n_stitches, y = 0, y > n_rows or addresses an absent stitch, the    *)
(* build fails with PosOutsideOfFabric carrying that endpoint (the source  *)
(* when both endpoints are bad), and validation never reads a stitch       *)
(* index outside the array.                                                *)
C6_PosOutsideOfFabric ==
    /\ reads \subseteq 0 .. (n_rows * n_stitches - 1)
    /\ Len(links) >= 1 =>
          /\ BadEndpoint(link.source) => err = PosOutsideOfFabric(link.source)
          /\ (~BadEndpoint(link.source) /\ BadEndpoint(link.dest))
                => err = PosOutsideOfFabric(link.dest)

\* a link whose source addresses an absent stitch inside the grid and
\* whose dest lies outside the grid: the error names the source
C6_Witness ==
    /\ Len(links) >= 1
    /\ InGrid(link.source)
    /\ ~stitches[UserIndex(link.source)].some
    /\ ~InGrid(link.dest)
    /\ err = PosOutsideOfFabric(link.source)

(* C7: for the link that links_to_hash examines, both endpoints being      *)
(* present cells, the build fails with LinkTooFar for that link if and     *)
(* only if allow_link_gaps is false and |dx| > 1 or |dy| > 2; with         *)
(* allow_link_gaps true no build ever fails with LinkTooFar.               *)
C7_LinkTooFar ==
    /\ (Len(links) >= 1 /\ ~BadEndpoint(link.source) /\ ~BadEndpoint(link.dest))
          => (err = LinkTooFar(link)
                <=> (~dims.allow_link_gaps /\ ExceedsGap(link)))
    /\ dims.allow_link_gaps => err.kind # "LinkTooFar"

\* a link rejected only for its row distance: same column, three rows apart
C7_Witness ==
    /\ err = LinkTooFar(link)
    /\ link.source[1] = link.dest[1]
    /\ AbsDiff(link.source[2], link.dest[2]) = 3

(* C8: a link whose endpoints are present and pass the gap check but have  *)
(* different colours fails the build with LinkToDifferentColor; that error *)
(* comes only after the position and gap checks have passed, and every     *)
(* entry of the link map joins two present cells of equal colour.          *)
C8_LinkToDifferentColor ==
    /\ (/\ Len(links) >= 1
        /\ ~BadEndpoint(link.source) /\ ~BadEndpoint(link.dest)
        /\ (dims.allow_link_gaps \/ ~ExceedsGap(link))
        /\ ColorAt(UserIndex(link.source)) # ColorAt(UserIndex(link.dest)))
          => err = LinkToDifferentColor(link)
    /\ err.kind = "LinkToDifferentColor" =>
          /\ err.link = link
          /\ ~BadEndpoint(link.source) /\ ~BadEndpoint(link.dest)
          /\ dims.allow_link_gaps \/ ~ExceedsGap(link)
          /\ ColorAt(UserIndex(link.source)) # ColorAt(UserIndex(link.dest))
    /\ \A p \in DOMAIN link_map :
          /\ ~BadEndpoint(p) /\ ~BadEndpoint(link_map[p])
          /\ ColorAt(UserIndex(p)) = ColorAt(UserIndex(link_map[p]))

\* the second link of the list joins two present cells of different
\* colours one column apart, after a first link entered the map
C8_Witness ==
    /\ Len(links) = 2
    /\ DOMAIN link_map # {}
    /\ err = LinkToDifferentColor(link)
    /\ AbsDiff(link.source[1], link.dest[1]) = 1

(* C9: the output file is created only after the chart has been built: if  *)
(* opening, decoding or converting the input fails or the build ends with  *)
(* an error, the file is never created and main ends with a failure exit   *)
(* code; SUCCESS is returned only after the write succeeded.               *)
C9_OutputOnlyAfterBuild ==
    /\ output_created => svg
    /\ err # NoError =>
          /\ ~output_created
          /\ pc = "exit"
          /\ exit_code \in {"FAILURE", "PANIC"}
    /\ (pc = "exit" /\ ~svg) =>
          /\ ~output_created
          /\ exit_code \in {"FAILURE", "PANIC"}
    /\ exit_code = "SUCCESS" =>
          /\ pc = "exit" /\ svg /\ output_created /\ output_written

\* the sweep failed with LinkNotFound: main has exited without an output
C9_Witness ==
    /\ pc = "exit"
    /\ err.kind = "LinkNotFound"
    /\ ~output_created
    /\ exit_code = "FAILURE"

(* C10: with duplicate_rows = 2, every row copied from a sampled row has,  *)
(* in every column, the colour (or absence) of the sampled row below it:   *)
(* counted from the bottom, the two rows of each block are identical.      *)
C10_GarterRowsEqual ==
    dims.duplicate_rows = 2 =>
        \A y \in (ry + 1) .. (n_rows - 1) :
            ((n_rows - 1 - y) % 2 = 0 /\ y >= 1) =>
                \A x \in 0 .. (n_stitches - 1) :
                    ColorAt((y - 1) * n_stitches + x)
                        = ColorAt(y * n_stitches + x)

\* a finished garter fabric of two blocks: the bottom block holds a
\* present stitch and the top block differs from it
C10_Witness ==
    /\ dims.duplicate_rows = 2
    /\ pc = "links"
    /\ n_rows >= 4
    /\ stitches[(n_rows - 1) * n_stitches].some
    /\ ColorAt((n_rows - 1) * n_stitches) # ColorAt(0)

\* the cells (upper, lower) of the garter blocks: counted from the bottom,
\* rows n_rows-1 and n_rows-2 form the first block, and so on
BlockPairs ==
    { <<(y - 1) * n_stitches + x, y * n_stitches + x>> :
        <<x, y>> \in { c \in (0 .. (n_stitches - 1)) \X (1 .. (n_rows - 1)) :
                         (n_rows - 1 - c[2]) % 2 = 0 } }

(* C11 (as claimed): in every Fabric built with duplicate_rows = 2, in     *)
(* every column the stitch in the upper row of a garter block has the      *)
(* thread id of the stitch directly below it in the block.                 *)
C11_GarterSharedThread ==
    (Built /\ dims.duplicate_rows = 2) =>
        \A p \in BlockPairs :
            stitches[p[1]].some => stitches[p[1]].thread = stitches[p[2]].thread

(* C11 (amended): in every Fabric built with duplicate_rows = 2 and an     *)
(* empty link list, in every column the stitch in the upper row of a       *)
(* garter block has the thread id of the stitch directly below it.         *)
C11_GarterSharedThreadNoLinks ==
    (Built /\ dims.duplicate_rows = 2 /\ Len(links) = 0) =>
        \A p \in BlockPairs :
            stitches[p[1]].some => stitches[p[1]].thread = stitches[p[2]].thread

\* a garter fabric built without links: a block with two threads of one
\* colour side by side, separated by another colour
C11_Witness ==
    /\ Built /\ dims.duplicate_rows = 2 /\ Len(links) = 0
    /\ n_rows >= 2 /\ n_stitches = 3
    /\ \E p, q \in BlockPairs :
          /\ stitches[p[1]].some /\ stitches[q[1]].some
          /\ stitches[p[1]].color = stitches[q[1]].color
          /\ stitches[p[1]].thread # stitches[q[1]].thread

\* the resampling loop has finished (the colours of the cells are final)
Resampled == pc \in {"links", "sweep", "create", "write"}

(* C12: resampling an image already at stitch resolution is the identity:  *)
(* when the image width equals stitches, the gauge gives n_rows equal to   *)
(* the image height and duplicate_rows = 1, the fabric has n_stitches =    *)
(* width, n_rows = height, and every cell (ix, iy) has exactly the colour  *)
(* or absence of source pixel (ix, iy).                                    *)
C12_ResampleIdentity ==
    (/\ Resampled
     /\ image.width = dims.stitches
     /\ NRows = image.height
     /\ dims.duplicate_rows = 1) =>
        /\ n_stitches = image.width
        /\ n_rows = image.height
        /\ DOMAIN stitches = 0 .. (image.width * image.height - 1)
        /\ \A ix \in 0 .. (image.width - 1), iy \in 0 .. (image.height - 1) :
              ColorAt(iy * n_stitches + ix) = get_pixel(image, ix, iy)

\* an image of one column and three rows, with an absent pixel and two
\* colours, resampled at its own resolution
C12_Witness ==
    /\ pc = "links"
    /\ dims.duplicate_rows = 1
    /\ image.width = dims.stitches
    /\ image.height = 3 /\ n_rows = 3
    /\ {image.pixels[i] : i \in DOMAIN image.pixels} = ColorOpt

(* ------------------- the unit test links of fabric.rs ------------------ *)
\* FAKE_IMAGE_DATA behind FakeImage::get_pixel: '#' is [0, 0, 0] ("a"),
\* ' ' is [255, 255, 255] ("b")
FAKE_IMAGE_DATA ==
    << "a", "a", "b", "b", "a", "a",
       "a", "a", "b", "b", "a", "a",
       "b", "a", "a", "a", "a", "b",
       "b", "a", "a", "a", "a", "b",
       "a", "a", "b", "b", "a", "a",
       "a", "a", "b", "b", "a", "a" >>

\* FakeImage::default()
FakeImage ==
    [width |-> 6, height |-> 6,
     pixels |-> [i \in 0 .. 35 |-> FAKE_IMAGE_DATA[i + 1]]]

\* Dimensions::default() with stitches = image.width() and equal gauges
TestDimensions ==
    { [stitches |-> 6, gauge_stitches |-> g, gauge_rows |-> g,
       duplicate_rows |-> 1, allow_link_gaps |-> FALSE] : g \in {1, 2} }

Lk(sx, sy, dx, dy) == [source |-> <<sx, sy>>, dest |-> <<dx, dy>>]

\* the link lists of the test: none, the two links, the two links swapped
TestLinkLists ==
    { << >>,
      << Lk(4, 3, 5, 2), Lk(3, 4, 3, 3) >>,
      << Lk(5, 2, 4, 3), Lk(3, 3, 3, 4) >> }

TestInit ==
    /\ pc = "new"
    /\ mitre = NoMitre
    /\ alloc = NoAlloc
    /\ label = NoLabel
    /\ dims \in TestDimensions
    /\ image = FakeImage
    /\ stitches = EmptyVec
    /\ n_stitches = 0
    /\ n_rows = 0
    /\ threads = << >>
    /\ ry = -1
    /\ links = << >>
    /\ link = NoLink
    /\ link_map = [p \in {} |-> <<0, 0>>]
    /\ reads = {}
    /\ k = 0
    /\ err = NoError
    /\ svg = FALSE
    /\ output_created = FALSE
    /\ output_written = FALSE
    /\ exit_code = "running"

\* one iteration of links_to_hash over the next link of a list of the test
TestLinksStep ==
    /\ pc = "links"
    /\ \E ls \in TestLinkLists :
          /\ Len(links) < Len(ls)
          /\ SubSeq(ls, 1, Len(links)) = links
          /\ LinksToHashBody(ls[Len(links) + 1])

\* the list of the test is exhausted
TestLinksDone ==
    /\ links \in TestLinkLists
    /\ LinksToHashDone

TestNext ==
    \/ FabricNew
    \/ ResampleRow
    \/ TestLinksStep
    \/ TestLinksDone
    \/ CalculateThreadsStep
    \/ CalculateThreadsDone

SpecLinksTest == TestInit /\ [][TestNext]_vars

\* the thread numbers of the stitch array, in index order (assert_threads)
ThreadGrid == [i \in 1 .. Len(FAKE_IMAGE_DATA) |-> stitches[i - 1].thread]

UNLINKED_THREADS ==
    << 6, 6, 5, 5, 0, 0,
       6, 6, 5, 5, 0, 0,
       4, 0, 0, 0, 0, 3,
       4, 0, 0, 0, 0, 3,
       2, 2, 1, 1, 0, 0,
       2, 2, 1, 1, 0, 0 >>

LINKED_THREADS ==
    << 2, 2, 5, 5, 0, 0,
       2, 2, 5, 5, 0, 0,
       4, 2, 2, 0, 0, 3,
       4, 2, 2, 0, 0, 3,
       2, 2, 1, 1, 0, 0,
       2, 2, 1, 1, 0, 0 >>

(* C13: for the 6x6 six-square image with stitches = 6 and equal gauges    *)
(* the build never fails; without links it yields 7 threads with stitch    *)
(* counts 16,4,4,2,2,4,4 and the grid UNLINKED_THREADS, and with the links *)
(* (4,3)-(5,2) and (3,4)-(3,3), in either direction, 6 threads and the     *)
(* grid LINKED_THREADS.                                                    *)
C13_SixSquares ==
    /\ err = NoError
    /\ Built =>
          /\ n_stitches = 6 /\ n_rows = 6
          /\ links = << >> =>
                /\ Len(threads) = 7
                /\ [i \in 1 .. 7 |-> threads[i].stitch_count]
                      = <<16, 4, 4, 2, 2, 4, 4>>
                /\ ThreadGrid = UNLINKED_THREADS
          /\ links # << >> =>
                /\ Len(threads) = 6
                /\ ThreadGrid = LINKED_THREADS

\* the build with the two links as the test first gives them has finished
C13_Witness ==
    /\ Built
    /\ links = << Lk(4, 3, 5, 2), Lk(3, 4, 3, 3) >>
    /\ Len(threads) = 6

(* ------------------------------- mitre -------------------------------- *)
\* make_mitre_fabric has built its MitreImage (held in image from then on)
MitreMade == pc # "mitre"

\* the sampler MitreImage::new used on the caller's image
SourceSampler ==
    Sampler(mitre.source, Min(mitre.source.width, mitre.source.height),
            mitre.stitches)

(* C14: MitreImage::new for an N-stitch target yields an image of width 2N *)
(* and height N; in row y the columns y+1 .. 2N-(y+1)-1 are absent; the    *)
(* left cell (x, y), x < y, is the sample of source cell (x, y); the right *)
(* cell at offset x' >= 1 of its triangle is the sample of source cell     *)
(* (y, y - x'); the two diagonal cells (x = y and x' = 0) are the lower    *)
(* left and upper right triangle samples of source cell (y, y).            *)
C14_MitreImage ==
    MitreMade =>
        LET N == mitre.stitches
        IN  /\ image.width = 2 * N
            /\ image.height = N
            /\ DOMAIN image.pixels = 0 .. (2 * N * N - 1)
            /\ \A y \in 0 .. (N - 1) :
                  /\ \A x \in (y + 1) .. (2 * N - (y + 1) - 1) :
                        get_pixel(image, x, y) = None
                  /\ \A x \in 0 .. (y - 1) :
                        get_pixel(image, x, y) \in sample(SourceSampler, x, y, 1)
                  /\ get_pixel(image, y, y)
                        \in sample_lower_left_triangle(SourceSampler, y, y)
                  /\ get_pixel(image, 2 * N - (y + 1), y)
                        \in sample_upper_right_triangle(SourceSampler, y, y)
                  /\ \A xx \in 1 .. y :
                        get_pixel(image, 2 * N - (y + 1) + xx, y)
                            \in sample(SourceSampler, y, y - xx, 1)

\* a 2-stitch mitre of a 2x2 image whose bottom row has its three sampled
\* cells present and its two ends of different colours
C14_Witness ==
    /\ MitreMade
    /\ mitre.stitches = 2
    /\ mitre.source.width = 2 /\ mitre.source.height = 2
    /\ get_pixel(image, 0, 1) # get_pixel(image, 3, 1)
    /\ get_pixel(image, 1, 1) # None
    /\ get_pixel(image, 2, 1) # None
    /\ get_pixel(image, 3, 1) # None

(* C15: make_mitre_fabric on an N-stitch request uses Dimensions with      *)
(* stitches = 2N, duplicate_rows = 2, gauge_rows = 2 x gauge_stitches and  *)
(* allow_link_gaps = true, and its Fabric has 2N columns and 2N rows in    *)
(* which rows 2k and 2k+1 both equal row k of the MitreImage, cell for     *)
(* cell.                                                                   *)
C15_MitreFabric ==
    LET N == mitre.stitches
    IN  /\ MitreMade =>
              /\ dims.stitches = 2 * N
              /\ dims.duplicate_rows = 2
              /\ dims.gauge_rows = 2 * dims.gauge_stitches
              /\ dims.allow_link_gaps
        /\ (MitreMade /\ (Resampled \/ Built)) =>
              /\ n_stitches = 2 * N
              /\ n_rows = 2 * N
              /\ DOMAIN stitches = 0 .. (4 * N * N - 1)
              /\ \A kk \in 0 .. (N - 1), x \in 0 .. (2 * N - 1) :
                    /\ ColorAt(2 * kk * n_stitches + x)
                          = get_pixel(image, x, kk)
                    /\ ColorAt((2 * kk + 1) * n_stitches + x)
                          = get_pixel(image, x, kk)

\* a 3-stitch mitre fabric has been returned, for a caller's stitch gauge
\* of 2, showing both colours and absent cells
C15_Witness ==
    /\ Built
    /\ mitre.stitches = 3
    /\ dims.gauge_stitches = 2
    /\ {ColorAt(i) : i \in DOMAIN stitches} = ColorOpt

\* the two MitreImage pixels either side of the gap of image row N-2-y are
\* present and equal
SeamJoined(y) ==
    LET N == mitre.stitches
        left == get_pixel(image, N - y - 2, N - 2 - y)
        right == get_pixel(image, N + y + 1, N - 2 - y)
    IN  left # None /\ right # None /\ left = right

\* the links make_mitre_fabric added after the caller's
SeamLinks ==
    SubSeq(mitre.links, Len(mitre.caller) + 1, Len(mitre.links))

(* C16: make_mitre_fabric keeps the caller's links at the head of the list *)
(* and appends the seam links after them: for each y in 0..N-2, in order,  *)
(* with left_x = N-y-2 and right_x = N+y+1, exactly the two links          *)
(* (right_x+1, 2y+3)->(left_x+1, 2y+3) and                                 *)
(* (left_x+1, 2y+4)->(right_x+1, 2y+4) when both MitreImage pixels of row  *)
(* N-2-y are present and equal, and none otherwise; for N = 1 none is      *)
(* added.  Fabric::new iterates that list from its head.                   *)
C16_SeamLinks ==
    MitreMade =>
        LET N == mitre.stitches
            joined == {y \in 0 .. (N - 2) : SeamJoined(y)}
            rank(y) == Cardinality({z \in joined : z < y})
        IN  /\ SubSeq(mitre.links, 1, Len(mitre.caller)) = mitre.caller
            /\ Len(SeamLinks) = 2 * Cardinality(joined)
            /\ \A y \in joined :
                  /\ SeamLinks[2 * rank(y) + 1]
                        = Lk(N + y + 2, 2 * y + 3, N - y - 1, 2 * y + 3)
                  /\ SeamLinks[2 * rank(y) + 2]
                        = Lk(N - y - 1, 2 * y + 4, N + y + 2, 2 * y + 4)
            /\ N = 1 => mitre.links = mitre.caller
            /\ Len(links) <= Len(mitre.links)
            /\ SubSeq(mitre.links, 1, Len(links)) = links

\* a 3-stitch mitre with one caller link: the seam is joined in one image
\* row and not in the other, and links_to_hash accepted all three links
C16_Witness ==
    /\ pc = "sweep"
    /\ mitre.stitches = 3
    /\ Len(mitre.caller) = 1
    /\ Len(mitre.links) = 3
    /\ SeamJoined(1) /\ ~SeamJoined(0)

(* --------------------------- chart labels ----------------------------- *)
\* mm % 10 of a u32
U32Mod10(a) == ((a.hi % 10) * 65536 + a.lo) % 10

\* the text the rule of the documentation gives for mm: "<mm>mm" below 10,
\* else cm = mm / 10 rounded half up, "<cm>cm" below 100, else cm / 100
\* with at most two fractional digits, no trailing zero, no bare point
DocumentedText(mm) ==
    LET cm == U32Div10(mm) + (IF U32Mod10(mm) >= 5 THEN 1 ELSE 0)
        tens == (cm % 100) \div 10
        units == cm % 10
    IN  IF mm.hi = 0 /\ mm.lo < 10 THEN Display(mm.lo) \o <<"m", "m">>
        ELSE IF cm < 100 THEN Display(cm) \o <<"c", "m">>
        ELSE Display(cm \div 100)
             \o (IF cm % 100 = 0 THEN << >>
                 ELSE IF units = 0 THEN <<".", Digit(tens)>>
                 ELSE <<".", Digit(tens), Digit(units)>>)
             \o <<"m">>

\* the examples of the documentation
MmExamples ==
    { <<1, <<"1", "m", "m">> >>, <<10, <<"1", "c", "m">> >>,
      <<19, <<"2", "c", "m">> >>, <<994, <<"9", "9", "c", "m">> >>,
      <<995, <<"1", "m">> >>, <<1100, <<"1", ".", "1", "m">> >>,
      <<1120, <<"1", ".", "1", "2", "m">> >>,
      <<1126, <<"1", ".", "1", "3", "m">> >> }

(* C17 (as claimed): mm_to_text(mm) writes "<mm>mm" for mm < 10; otherwise *)
(* with cm = mm/10 rounded half up it writes "<cm>cm" for cm < 100 and for *)
(* cm >= 100 the decimal value cm/100 with at most two fractional digits,  *)
(* no trailing zero and no bare decimal point, followed by "m" (1->1mm,    *)
(* 10->1cm, 19->2cm, 994->99cm, 995->1m, 1100->1.1m, 1120->1.12m,          *)
(* 1126->1.13m); the digit loop ends after at most two iterations, for     *)
(* every mm.                                                               *)
C17_MmToText ==
    (pc = "text_done" /\ label.call = "mm_to_text") =>
        /\ ~label.panic
        /\ label.out = DocumentedText(label.mm)
        /\ label.loops <= 2
        /\ \A e \in MmExamples : label.mm = U32(e[1]) => label.out = e[2]

\* the value of a string of decimal digits
RECURSIVE ParseDigits(_)
ParseDigits(cs) ==
    IF Len(cs) = 0 THEN 0
    ELSE ParseDigits(SubSeq(cs, 1, Len(cs) - 1)) * 10
            + (CHOOSE d \in 0 .. 9 : Digit(d) = cs[Len(cs)])

\* the length a text denotes, as <<whole centimetres, millimetres>>
Denoted(text) ==
    LET n == Len(text)
        body == SubSeq(text, 1, n - 1)
        dot == {i \in 1 .. (n - 1) : text[i] = "."}
    IN  IF text[n - 1] = "m"
        THEN <<0, ParseDigits(SubSeq(text, 1, n - 2))>>
        ELSE IF text[n - 1] = "c"
        THEN <<ParseDigits(SubSeq(text, 1, n - 2)), 0>>
        ELSE IF dot = {} THEN <<ParseDigits(body) * 100, 0>>
        ELSE LET i == CHOOSE j \in dot : TRUE
                 frac == SubSeq(body, i + 1, n - 1)
             IN  <<ParseDigits(SubSeq(body, 1, i - 1)) * 100
                     + (IF Len(frac) = 1 THEN ParseDigits(frac) * 10
                        ELSE ParseDigits(frac)), 0>>

LengthLeq(a, b) == a[1] < b[1] \/ (a[1] = b[1] /\ a[2] <= b[2])
U32Leq(a, b) == a.hi < b.hi \/ (a.hi = b.hi /\ a.lo <= b.lo)

(* C18 (as claimed): yarn-length formatting is monotonic in mm: for all    *)
(* mm1 <= mm2 the length denoted by mm_to_text(mm1) is not greater than    *)
(* the length denoted by mm_to_text(mm2).                                  *)
C18_MmToTextMonotonic ==
    (pc = "text_done" /\ label.call = "mm_to_text" /\ ~label.panic) =>
        \A c \in MmCalls :
            U32Leq(c.mm, label.mm) =>
                \A r \in mm_to_text(c.mm) :
                    ~r.panic => LengthLeq(Denoted(r.out), Denoted(label.out))

(* C19 (as claimed): when cm_per_stitch is not set, the yarn estimate for  *)
(* n stitches is n x 300 / gauge_stitches millimetres rounded to the       *)
(* nearest integer, e.g. gauge 31 gives "31 (30cm)" for n = 31 and         *)
(* "46 (45cm)" for n = 46.                                                 *)
C19_YarnEstimate ==
    (/\ pc = "text_done"
     /\ label.call = "stitch_count_text"
     /\ ~label.cm_per_stitch.some) =>
        /\ label.mm = U32(RoundDiv(label.n * 300, dims.gauge_stitches))
        /\ (dims.gauge_stitches = 31 /\ label.n = 31) =>
              label.out = <<"3", "1", " ", "(", "3", "0", "c", "m", ")">>
        /\ (dims.gauge_stitches = 31 /\ label.n = 46) =>
              label.out = <<"4", "6", " ", "(", "4", "5", "c", "m", ")">>

(* C20 (as claimed): the chart is deterministic: two builds from the same  *)
(* image and the same Dimensions give the same Fabric and the same chart   *)
(* with children in the same order, also when pixel colours tie for        *)
(* plurality in a sample footprint and when two colours have equal totals  *)
(* in the colour tally: every sample of the resampling loop has one        *)
(* possible result, and the colour tally of a built fabric one possible    *)
(* order.                                                                  *)
C20_Deterministic ==
    /\ pc = "resample" =>
          \A x \in 0 .. (dims.stitches - 1) : Cardinality(CellColors(x, ry)) <= 1
    /\ Built => Cardinality(count_color_stitches(threads)) = 1

(* ---------------------- sweep and storage claims ---------------------- *)
\* the pixel footprint Fabric::new gives cell x of the sampled row y
Footprint(x, y) ==
    (SampleStartX(x) .. (SampleEndX(x) - 1))
        \X (SampleStartY(y) .. (SampleEndY(y) - 1))

\* the resampling loop stopped in row ry without finishing it
ResampleFailed == pc = "exit" /\ ry >= 0 /\ n_rows > 0

(* C21 (as claimed): sampling a cell whose pixel footprint is empty gives  *)
(* None and never fails, in Sampler::sample, in both triangle samplers and *)
(* in the per-cell sampling of Fabric::new (for instance when the stitch   *)
(* count exceeds the image width): the resampling loop never stops on such *)
(* a cell, and the cell is stored as an absent stitch.                     *)
C21_EmptyFootprintNone ==
    /\ image # NoImage =>
          LET s == Sampler(image, image.width, dims.stitches)
          IN  \A x, y \in 0 .. dims.stitches :
                 LET r == sample_range(s, x, y, 1)
                 IN  (r.end_x <= r.start_x \/ r.end_y <= r.start_y) =>
                        /\ sample(s, x, y, 1) = {None}
                        /\ sample_lower_left_triangle(s, x, y) = {None}
                        /\ sample_upper_right_triangle(s, x, y) = {None}
    /\ ResampleFailed =>
          \A x \in 0 .. (dims.stitches - 1) : Footprint(x, ry) # {}
    /\ (n_rows > 0 /\ ~ResampleFailed) =>
          \A y \in (ry + 1) .. (n_rows - 1), x \in 0 .. (n_stitches - 1) :
             ((n_rows - 1 - y) % dims.duplicate_rows = 0
                    /\ Footprint(x, y) = {})
                => stitches[y * n_stitches + x] = NoStitch

\* the user position of the c-th cell of the sweep:
\* (self.n_stitches - x, self.n_rows - y)
SweepUserPos(c) == <<n_stitches - SweepX(c), n_rows - SweepY(c)>>

\* the sweep is about to visit its k-th cell
Sweeping == pc = "sweep" /\ k < n_rows * n_stitches

(* C22: the order that orients links agrees with the order of the sweep:   *)
(* when the sweep is at cell a, for every other cell b of the fabric       *)
(* compare_position_thread_order(a, b) is Greater exactly when b has       *)
(* already been visited, and compare_position_thread_order(b, a) is        *)
(* Greater exactly when b is still to be visited; a position compares      *)
(* Equal with itself.                                                      *)
C22_OrderAgreesWithSweep ==
    Sweeping =>
        LET a == SweepUserPos(k)
        IN  /\ compare_position_thread_order(a, a) = "Equal"
            /\ \A c \in 0 .. (n_rows * n_stitches - 1) :
                  c # k =>
                     LET b == SweepUserPos(c)
                     IN  /\ compare_position_thread_order(a, b) = "Greater"
                               <=> c < k
                         /\ compare_position_thread_order(b, a) = "Greater"
                               <=> c > k
                         /\ compare_position_thread_order(a, b) = "Less"
                               <=> c > k

\* the sweep is in the middle of the second row from the bottom (an even
\* user row) of a fabric of three columns and two rows
C22_Witness ==
    /\ Sweeping
    /\ n_stitches = 3 /\ n_rows = 2
    /\ k = 4
    /\ SweepUserPos(k) = <<2, 2>>
    /\ SweepUserPos(3) = <<3, 2>>

\* the number of cells the sweep visits before the cell at user position p
VisitIndex(p) ==
    CHOOSE c \in 0 .. (n_rows * n_stitches - 1) : SweepUserPos(c) = p

\* the cell at user position p has been visited and handed to a thread:
\* its stitch is present and names a thread of the list that has its
\* colour and counts at least one stitch
Assigned(p) ==
    /\ VisitIndex(p) < k
    /\ stitches[UserIndex(p)].some
    /\ \E t \in 1 .. Len(threads) :
          /\ threads[t].id = stitches[UserIndex(p)].thread
          /\ threads[t].color = stitches[UserIndex(p)].color
          /\ threads[t].stitch_count >= 1

(* C23 (as claimed): for every link that passed validation, a link from a  *)
(* position to itself included, when the sweep reaches the cell that is    *)
(* the key of its map entry, the cell stored as the value has already been *)
(* visited and assigned to a thread.                                       *)
C23_EarlierEndpointAssigned ==
    (Sweeping /\ SweepUserPos(k) \in DOMAIN link_map) =>
        Assigned(link_map[SweepUserPos(k)])

(* C23 (amended): for every validated link between two different           *)
(* positions, when the sweep reaches the cell that is the key of its map   *)
(* entry, the cell stored as the value has already been visited and        *)
(* assigned to a thread; the entry of a link from a position to itself     *)
(* has that position as key and value, which is not yet visited when the   *)
(* sweep reaches it.                                                       *)
C23_EarlierEndpointAssignedDistinct ==
    (Sweeping /\ SweepUserPos(k) \in DOMAIN link_map) =>
        LET key == SweepUserPos(k)
        IN  /\ key # link_map[key] => Assigned(link_map[key])
            /\ key = link_map[key] => VisitIndex(link_map[key]) = k

\* the sweep has reached the key of a link entry whose value lies two
\* columns away in the same row
C23_Witness ==
    /\ Sweeping
    /\ SweepUserPos(k) \in DOMAIN link_map
    /\ link_map[SweepUserPos(k)][2] = SweepUserPos(k)[2]
    /\ AbsDiff(link_map[SweepUserPos(k)][1], SweepUserPos(k)[1]) = 2

\* the threads of the list located at the cell of user position p
LocatedAt(p) ==
    {t \in 1 .. Len(threads) :
        /\ threads[t].x = n_stitches - p[1]
        /\ threads[t].y = n_rows - p[2]}

\* what a step does when the cell the sweep is at is a key of the link
\* map: the cell joins the thread located at the mapped cell, or the build
\* fails with LinkNotFound and nothing is assigned
LinkedCellStep ==
    (Sweeping /\ SweepUserPos(k) \in DOMAIN link_map) =>
        LET key == SweepUserPos(k)
            dest == link_map[key]
            pos == SweepX(k) + SweepY(k) * n_stitches
        IN  IF LocatedAt(dest) # {}
            THEN /\ err' = NoError
                 /\ k' = k + 1
                 /\ \E t \in LocatedAt(dest) :
                       /\ stitches'[pos].thread = threads[t].id
                       /\ threads'[Len(threads')]
                             = [threads[t] EXCEPT
                                   !.x = SweepX(k), !.y = SweepY(k),
                                   !.stitch_count = @ + 1]
                 /\ Len(threads') = Len(threads)
            ELSE /\ err' = LinkNotFound([source |-> key, dest |-> dest])
                 /\ pc' = "exit"
                 /\ threads' = threads
                 /\ stitches' = stitches

(* C24: a link entry takes precedence over the neighbour rule and never    *)
(* falls back to it: when the visited cell is a key of the link map it is  *)
(* assigned the thread currently located at the mapped cell, and if no     *)
(* thread is located there Fabric::new fails with LinkNotFound, also when  *)
(* a thread of the same colour lies within 1 column and 2 rows.            *)
C24_LinkPrecedence == [][LinkedCellStep]_vars

\* the build failed with LinkNotFound at a cell for which the neighbour
\* rule had a thread to offer: the thread of the mapped cell, visited
\* earlier, has moved on
C24_Witness ==
    /\ pc = "exit"
    /\ err.kind = "LinkNotFound"
    /\ err.link.source = SweepUserPos(k)
    /\ err.link.dest # err.link.source
    /\ VisitIndex(err.link.dest) < k
    /\ find_neighboring_thread(threads,
                               ColorAt(SweepX(k) + SweepY(k) * n_stitches),
                               SweepX(k), SweepY(k)) > 0

\* the number of cells the sweep visits before the cell a thread is at
ThreadVisit(t) ==
    CHOOSE c \in 0 .. (n_rows * n_stitches - 1) :
        SweepX(c) = t.x /\ SweepY(c) = t.y

\* a scan of the whole list: the thread nearest the tail that has the
\* colour and lies within MAX_STITCH_GAP columns and MAX_ROW_GAP rows of
\* (x, y); 0 when there is none
FullScan(ths, color, x, y) ==
    LET ok == {i \in 1 .. Len(ths) :
                  /\ ths[i].color = color
                  /\ AbsDiff(ths[i].x, x) <= MAX_STITCH_GAP
                  /\ AbsDiff(ths[i].y, y) <= MAX_ROW_GAP}
    IN  IF ok = {} THEN 0 ELSE CHOOSE i \in ok : \A j \in ok : j <= i

(* C25: at every step of the sweep, with or without link matches, the      *)
(* thread list is ordered by last touch (the most recent at the tail), so  *)
(* for the visited row iy every thread has y >= iy and y does not          *)
(* decrease from the tail to the head; the neighbour lookup with early     *)
(* termination returns the thread a scan of the whole list would, the most *)
(* recently touched thread of the colour within 1 column and 2 rows.       *)
C25_RecencyOrder ==
    pc = "sweep" =>
        /\ \A i, j \in 1 .. Len(threads) :
              i < j => /\ ThreadVisit(threads[i]) < ThreadVisit(threads[j])
                       /\ threads[i].y >= threads[j].y
        /\ \A i \in 1 .. Len(threads) : ThreadVisit(threads[i]) < k
        /\ Sweeping =>
              /\ \A i \in 1 .. Len(threads) : threads[i].y >= SweepY(k)
              /\ \A c \in Colors, x \in 0 .. (n_stitches - 1) :
                    find_neighboring_thread(threads, c, x, SweepY(k))
                        = FullScan(threads, c, x, SweepY(k))

\* the sweep after a link match, with a thread left more than two rows
\* behind the visited row and a younger thread of the other colour
C25_Witness ==
    /\ Sweeping
    /\ \E i \in DOMAIN stitches :
          /\ stitches[i].some
          /\ <<n_stitches - (i % n_stitches), n_rows - (i \div n_stitches)>>
                \in DOMAIN link_map
          /\ VisitIndex(<<n_stitches - (i % n_stitches),
                          n_rows - (i \div n_stitches)>>) < k
    /\ \E i, j \in 1 .. Len(threads) :
          /\ i < j
          /\ threads[i].y - SweepY(k) > MAX_ROW_GAP
          /\ threads[j].y - SweepY(k) <= MAX_ROW_GAP
          /\ threads[i].color # threads[j].color

\* the stitch array index of the c-th cell of the sweep
SweepIndex(c) == SweepX(c) + SweepY(c) * n_stitches

\* the pairs (c1, c2) of sweep positions of two cells assigned one after
\* the other to the same thread
Consecutive ==
    {p \in (0 .. (n_rows * n_stitches - 1)) \X (0 .. (n_rows * n_stitches - 1)) :
        /\ p[1] < p[2]
        /\ stitches[SweepIndex(p[1])].some
        /\ stitches[SweepIndex(p[2])].some
        /\ stitches[SweepIndex(p[1])].thread = stitches[SweepIndex(p[2])].thread
        /\ \A c \in (p[1] + 1) .. (p[2] - 1) :
              stitches[SweepIndex(c)].some =>
                 stitches[SweepIndex(c)].thread
                    # stitches[SweepIndex(p[1])].thread}

WithinGap(c1, c2) ==
    /\ AbsDiff(SweepX(c1), SweepX(c2)) <= MAX_STITCH_GAP
    /\ AbsDiff(SweepY(c1), SweepY(c2)) <= MAX_ROW_GAP

(* C26: in every Fabric built with allow_link_gaps = false, two cells      *)
(* assigned one after the other (in knit order) to the same thread are at  *)
(* most 1 column and at most 2 rows apart; with allow_link_gaps = true the *)
(* bound holds for every assignment that was not made through a link,      *)
(* that is whenever the later cell is not a key of the link map.           *)
C26_ThreadSteps ==
    Built =>
        \A p \in Consecutive :
            (~dims.allow_link_gaps \/ SweepUserPos(p[2]) \notin DOMAIN link_map)
                => WithinGap(p[1], p[2])

\* a fabric built without link gaps in which a thread steps on through a
\* link and, one column aside, through the neighbour rule
C26_Witness ==
    /\ Built
    /\ ~dims.allow_link_gaps
    /\ \E p, q \in Consecutive :
          /\ SweepUserPos(p[2]) \in DOMAIN link_map
          /\ SweepUserPos(q[2]) \notin DOMAIN link_map
          /\ AbsDiff(SweepX(q[1]), SweepX(q[2])) = 1

\* the sweep positions of the visited cells that carry thread id
CellsOf(id) ==
    {c \in 0 .. (Min(k, n_rows * n_stitches) - 1) :
        /\ stitches[SweepIndex(c)].some
        /\ stitches[SweepIndex(c)].thread = id}

(* C27: during and after the sweep each thread's (x, y) is the last cell   *)
(* in knit order assigned to it: the stitch at that cell is present and    *)
(* has the thread's id and colour, no visited cell after it carries the    *)
(* id, and no two threads are located at the same cell, so that a link     *)
(* lookup by position matches at most one thread.                          *)
C27_ThreadPosition ==
    (pc = "sweep" \/ Built) =>
        /\ \A t \in 1 .. Len(threads) :
              LET th == threads[t]
                  pos == th.x + th.y * n_stitches
              IN  /\ th.x < n_stitches /\ th.y < n_rows
                  /\ stitches[pos].some
                  /\ stitches[pos].thread = th.id
                  /\ stitches[pos].color = th.color
                  /\ ThreadVisit(th) \in CellsOf(th.id)
                  /\ \A c \in CellsOf(th.id) : c <= ThreadVisit(th)
        /\ \A i, j \in 1 .. Len(threads) :
              (threads[i].x = threads[j].x /\ threads[i].y = threads[j].y)
                  => i = j
        /\ \A p \in DOMAIN link_map : Cardinality(LocatedAt(p)) <= 1

\* the sweep under way with two threads of one colour, one of which took
\* its latest cell through a link from more than one column away
C27_Witness ==
    /\ Sweeping
    /\ \E i, j \in 1 .. Len(threads) :
          /\ i # j
          /\ threads[i].color = threads[j].color
          /\ threads[i].stitch_count >= 2
          /\ LET p == <<n_stitches - threads[i].x, n_rows - threads[i].y>>
             IN  /\ p \in DOMAIN link_map
                 /\ AbsDiff(link_map[p][1], p[1]) > 1

(* C28 (as claimed): Fabric::new allocates exactly n_rows x stitches cells *)
(* and stores cell (ix, iy) at index iy * n_stitches + ix, the copies of a *)
(* row included, for every combination of 16-bit n_rows and stitches, also *)
(* those whose product exceeds 65535; no product makes the build fail.     *)
C28_AllocationIndex ==
    /\ err # Panic
    /\ pc # "new" => alloc.len = n_rows * n_stitches
    /\ alloc.row >= 0 =>
          /\ alloc.start = alloc.row * n_stitches
          /\ alloc.start + n_stitches <= alloc.len
          /\ alloc.copies \subseteq {(alloc.row - 1) * n_stitches}

\* the user position of a cell and the colour there, inside the grid
SeamCell(p) == stitches[UserIndex(p)]

(* C29 (as claimed): for any source image and any N >= 1,                  *)
(* make_mitre_fabric called with no links of the caller never fails:       *)
(* every seam link addresses two present cells of equal colour inside the  *)
(* 2N x 2N fabric, the thread of the earlier endpoint is still located     *)
(* there when the later endpoint is visited, and in the fabric returned    *)
(* the two seam cells of each link carry one thread id.                    *)
C29_MitreNeverFails ==
    (MitreMade /\ mitre.stitches > 0 /\ mitre.caller = << >>) =>
        /\ err = NoError
        /\ Resampled =>
              \A i \in 1 .. Len(mitre.links) :
                 LET l == mitre.links[i]
                 IN  /\ InGrid(l.source) /\ InGrid(l.dest)
                     /\ n_stitches = 2 * mitre.stitches
                     /\ n_rows = 2 * mitre.stitches
                     /\ SeamCell(l.source).some /\ SeamCell(l.dest).some
                     /\ SeamCell(l.source).color = SeamCell(l.dest).color
        /\ (Sweeping /\ SweepUserPos(k) \in DOMAIN link_map) =>
              LocatedAt(link_map[SweepUserPos(k)]) # {}
        /\ Built =>
              \A i \in 1 .. Len(mitre.links) :
                 SeamCell(mitre.links[i].source).thread
                    = SeamCell(mitre.links[i].dest).thread

(* --------------------------- glyph labels ----------------------------- *)
\* the value of a string of the letters A..Z read as base-26 digits (A = 0),
\* the most significant first
LetterValue(c) == CHOOSE d \in 0 .. 25 : Letter(d) = c
RECURSIVE Base26(_)
Base26(s) ==
    IF Len(s) = 0 THEN 0
    ELSE Base26(SubSeq(s, 1, Len(s) - 1)) * 26 + LetterValue(s[Len(s)])

GlyphDone == pc = "text_done" /\ label.call = "generate_defs"

(* C30: the glyph labels are unique per bobbin: generate_defs maps id 0 to *)
(* "A" and every other id to its base-26 digits A..Z (A = 0), the most     *)
(* significant first and without a leading A, so two different thread ids  *)
(* get different labels, and the digit loop ends (after at most four       *)
(* iterations) for every 16-bit id.                                        *)
C30_GlyphLabels ==
    GlyphDone =>
        /\ label.n = 0 => label.out = << "A" >>
        /\ label.n > 0 =>
              /\ Len(label.out) >= 1
              /\ \A i \in 1 .. Len(label.out) :
                    \E d \in 0 .. 25 : label.out[i] = Letter(d)
              /\ label.out[1] # "A"
              /\ Base26(label.out) = label.n
        /\ \A other \in DefsIds :
              other # label.n => thread_text(other).out # label.out
        /\ label.loops <= 4
        /\ label.loops = IF label.n = 0 THEN 0 ELSE Len(label.out)

\* the label of the highest 16-bit id, written after four iterations
C30_Witness ==
    /\ GlyphDone
    /\ label.n = 65535
    /\ label.out = << "D", "S", "Y", "P" >>
    /\ label.loops = 4

====
